---- MODULE Spec2Model ----
(***************************************************************************)
(* Verification model of the sales-projection forecasting core:            *)
(*   - the cache orchestrator run_forecast (core/service.py), run by       *)
(*     concurrent request threads over a shared cache directory;           *)
(*   - the cache key (_safe_scenario, _cache_key);                         *)
(*   - the aligner _align_series (core/forecasting.py);                    *)
(*   - the feature builder add_lag_rolling_features (core/features.py);    *)
(*   - the series provider forecast_query (app.py) and the recursive       *)
(*     forecaster recursive_forecast (core/forecasting.py);                *)
(*   - the payload serializer (core/serializer.py) and the scenario        *)
(*     applier apply_scenario (core/service.py).                           *)
(*                                                                         *)
(* Python strings are sequences of one-character strings.  Python dicts    *)
(* are insertion-ordered sequences of <<key, value>> pairs with distinct   *)
(* keys.                                                                   *)
(***************************************************************************)
EXTENDS Integers, Sequences, FiniteSets, TLC

VARIABLES
    \* ---- the cache orchestrator (Spec)
    dirExists,   \* whether cache_dir exists
    files,       \* cache_dir: key -> [exists, data]; data is a sequence of JSON lexemes
    th,          \* per request thread: position in run_forecast and its locals
    result,      \* per request thread: what its last run_forecast call returned or raised
    calls,       \* number of run_forecast calls made so far
    hist,        \* history: per key, what is known about the writes made to it
    tampers,     \* number of outside modifications of the cache directory so far
    \* ---- the cache key (SpecKey)
    keyIn, keyOut,
    \* ---- the aligner (SpecAlign)
    alignIn, alignOut,
    \* ---- the feature builder (SpecFeat)
    featIn, featOut,
    \* ---- the series provider and the recursive forecaster (SpecForecast)
    fcIn, fc,
    \* ---- the payload serializer and the scenario applier (SpecScenario)
    scIn, scOut,
    \* ---- the sanitizer on the miss path of run_forecast (SpecSafe)
    jsIn, jsOut

cacheVars == <<dirExists, files, th, result, calls, hist, tampers>>
keyVars   == <<keyIn, keyOut>>
alignVars == <<alignIn, alignOut>>
featVars  == <<featIn, featOut>>
fcVars    == <<fcIn, fc>>
scVars    == <<scIn, scOut>>
jsVars    == <<jsIn, jsOut>>
vars == <<dirExists, files, th, result, calls, hist, tampers,
          keyIn, keyOut, alignIn, alignOut, featIn, featOut,
          fcIn, fc, scIn, scOut, jsIn, jsOut>>

----------------------------------------------------------------------------
(* Strings *)

Uppers == <<"A", "B", "C", "D", "E", "F", "G", "H", "I", "J", "K", "L", "M",
            "N", "O", "P", "Q", "R", "S", "T", "U", "V", "W", "X", "Y", "Z">>
Lowers == <<"a", "b", "c", "d", "e", "f", "g", "h", "i", "j", "k", "l", "m",
            "n", "o", "p", "q", "r", "s", "t", "u", "v", "w", "x", "y", "z">>

\* The characters of parameter names and values, in code-point order.
Chars == <<"\t", " ", "=">> \o Uppers \o <<"_">> \o Lowers \o <<"|">>

ord(c) == CHOOSE i \in 1..Len(Chars) : Chars[i] = c

IsUpper(c) == \E i \in 1..Len(Uppers) : Uppers[i] = c
IsLower(c) == \E i \in 1..Len(Lowers) : Lowers[i] = c

\* str.lower()
lower(s) == [i \in 1..Len(s) |->
               IF IsUpper(s[i])
               THEN Lowers[CHOOSE j \in 1..Len(Uppers) : Uppers[j] = s[i]]
               ELSE s[i]]

\* str.upper()
upper(s) == [i \in 1..Len(s) |->
               IF IsLower(s[i])
               THEN Uppers[CHOOSE j \in 1..Len(Lowers) : Lowers[j] = s[i]]
               ELSE s[i]]

Whitespace == {" ", "\t"}

SetMin(S) == CHOOSE x \in S : \A y \in S : x <= y
SetMax(S) == CHOOSE x \in S : \A y \in S : x >= y

\* str.strip(): leading and trailing whitespace removed
strip(s) ==
    LET keep == {i \in 1..Len(s) : s[i] \notin Whitespace}
    IN  IF keep = {} THEN <<>> ELSE SubSeq(s, SetMin(keep), SetMax(keep))

\* a < b for Python strings (lexicographic by code point)
StrLess(a, b) ==
    \E i \in 1..(Len(a) + 1) :
        /\ \A j \in 1..(i - 1) : j <= Len(b) /\ a[j] = b[j]
        /\ \/ i = Len(a) + 1 /\ Len(b) >= i
           \/ i <= Len(a) /\ i <= Len(b) /\ ord(a[i]) < ord(b[i])

\* Python None, as a value that is no string of Chars
None == <<"None">>

\* str(v) as an f-string formats it
format(v) == IF v = None THEN <<"N", "o", "n", "e">> ELSE v

RECURSIVE join(_, _)
\* sep.join(parts)
join(sep, parts) ==
    IF parts = <<>> THEN <<>>
    ELSE IF Len(parts) = 1 THEN parts[1]
    ELSE parts[1] \o sep \o join(sep, Tail(parts))

RECURSIVE sorted(_)
\* sorted(S) for a set of strings
sorted(S) ==
    IF S = {} THEN <<>>
    ELSE LET m == CHOOSE x \in S : \A y \in S \ {x} : StrLess(x, y)
         IN  <<m>> \o sorted(S \ {m})

----------------------------------------------------------------------------
(* Dicts *)

dict_keys(d) == {d[i][1] : i \in 1..Len(d)}

dict_has(d, k) == \E i \in 1..Len(d) : d[i][1] = k

\* d.get(k, default)
dict_get(d, k, default) ==
    IF dict_has(d, k) THEN d[CHOOSE i \in 1..Len(d) : d[i][1] = k][2] ELSE default

\* d[k] = v: an existing key keeps its place, a new one goes last
dict_set(d, k, v) ==
    IF dict_has(d, k)
    THEN [i \in 1..Len(d) |-> IF d[i][1] = k THEN <<k, v>> ELSE d[i]]
    ELSE Append(d, <<k, v>>)

\* d1 == d2 for Python dicts: the same pairs, in any order
dict_eq(d1, d2) == {d1[i] : i \in 1..Len(d1)} = {d2[i] : i \in 1..Len(d2)}

----------------------------------------------------------------------------
(* The cache key *)

s_conservative == <<"c", "o", "n", "s", "e", "r", "v", "a", "t", "i", "v", "e">>
s_base         == <<"b", "a", "s", "e">>
s_aggressive   == <<"a", "g", "g", "r", "e", "s", "s", "i", "v", "e">>

k_scenario == <<"s", "c", "e", "n", "a", "r", "i", "o">>
k_freq     == <<"f", "r", "e", "q">>
k_category == <<"c", "a", "t", "e", "g", "o", "r", "y">>

\* the scenario factors, in hundredths
SCENARIO_FACTOR ==
    (s_conservative :> 92) @@ (s_base :> 100) @@ (s_aggressive :> 108)

_safe_scenario(s) ==
    LET t == lower(strip(IF s = None \/ s = <<>> THEN s_base ELSE s))
    IN  IF t \in DOMAIN SCENARIO_FACTOR THEN t ELSE s_base

\* hashlib.md5(...).hexdigest(), taken as collision-free: the digest is
\* modelled as the tagged pre-image
md5_hexdigest(s) == <<"md5">> \o s

\* the parameters joined in the order they were supplied
normalized_unsorted(params) ==
    join(<<"|">>, [i \in 1..Len(params) |->
                      params[i][1] \o <<"=">> \o format(params[i][2])])

\* the string _cache_key hashes
normalized(params) ==
    LET ks == sorted(dict_keys(params))
    IN  join(<<"|">>, [i \in 1..Len(ks) |->
                          ks[i] \o <<"=">> \o format(dict_get(params, ks[i], <<>>))])

_cache_key(params) == md5_hexdigest(normalized(params))

\* run_forecast, lines 135-137: the parameters the key and the engine see
params2_of(params) ==
    dict_set(params, k_scenario, _safe_scenario(dict_get(params, k_scenario, s_base)))

----------------------------------------------------------------------------
(* JSON: a document on disk is a sequence of lexemes, the chunks json.dump *)
(* writes one by one; a value in memory is <<tag, chars>>.                 *)

j_true  == <<"t", "r", "u", "e">>
j_false == <<"f", "a", "l", "s", "e">>
j_null  == <<"n", "u", "l", "l">>
Digits  == <<"0", "1", "2", "3", "4", "5", "6", "7", "8", "9">>

PyStr(chars) == <<"str", chars>>
PyNum(chars) == <<"num", chars>>
PyTrue  == <<"bool", j_true>>
PyFalse == <<"bool", j_false>>
PyNone  == <<"null", j_null>>

RECURSIVE ToDigits(_)
\* str(n) for a natural number
ToDigits(n) == IF n < 10 THEN <<Digits[n + 1]>>
               ELSE ToDigits(n \div 10) \o <<Digits[(n % 10) + 1]>>

\* the lexeme the encoder writes for a scalar
Lexeme(v) == IF v[1] = "str" THEN <<"\"">> \o v[2] \o <<"\"">> ELSE v[2]

IsStrLexeme(x) == Len(x) >= 2 /\ x[1] = "\"" /\ x[Len(x)] = "\""
IsNumLexeme(x) == Len(x) >= 1 /\ \A i \in 1..Len(x) : \E d \in 1..Len(Digits) : Digits[d] = x[i]
IsScalarLexeme(x) == IsStrLexeme(x) \/ IsNumLexeme(x) \/ x \in {j_true, j_false, j_null}

\* the scalar a lexeme decodes to
Unlex(x) == IF IsStrLexeme(x) THEN PyStr(SubSeq(x, 2, Len(x) - 1))
            ELSE IF IsNumLexeme(x) THEN PyNum(x)
            ELSE IF x = j_null THEN PyNone
            ELSE <<"bool", x>>

RECURSIVE dump_items(_)
dump_items(d) ==
    IF d = <<>> THEN <<>>
    ELSE <<Lexeme(PyStr(d[1][1])), <<":">>, Lexeme(d[1][2])>>
         \o (IF Len(d) = 1 THEN <<>> ELSE <<(<<",">>)>> \o dump_items(Tail(d)))

\* json.dump(d, f): the chunks written for a dict of scalars
json_dump(d) == <<(<<"{">>)>> \o dump_items(d) \o <<(<<"}">>)>>

\* what json.load and the except clause of _read_json yield
JValue(kind, items) == [kind |-> kind, items |-> items]
JNothing == JValue("none", <<>>)

RECURSIVE load_items(_, _)
\* the members of an object, read left to right; <<"bad">> when malformed
load_items(lx, acc) ==
    IF Len(lx) < 3 \/ ~IsStrLexeme(lx[1]) \/ lx[2] /= <<":">> \/ ~IsScalarLexeme(lx[3])
    THEN JNothing
    ELSE LET acc2 == dict_set(acc, Unlex(lx[1])[2], Unlex(lx[3]))
         IN  IF Len(lx) = 3 THEN JValue("dict", acc2)
             ELSE IF lx[4] /= <<",">> THEN JNothing
             ELSE load_items(SubSeq(lx, 5, Len(lx)), acc2)

RECURSIVE load_elems(_, _)
load_elems(lx, acc) ==
    IF Len(lx) < 1 \/ ~IsScalarLexeme(lx[1]) THEN JNothing
    ELSE LET acc2 == Append(acc, <<(<<>>), Unlex(lx[1])>>)
         IN  IF Len(lx) = 1 THEN JValue("list", acc2)
             ELSE IF lx[2] /= <<",">> THEN JNothing
             ELSE load_elems(SubSeq(lx, 3, Len(lx)), acc2)

\* json.load(f) of a whole document; JNothing stands for JSONDecodeError
json_load(lx) ==
    IF lx = <<>> THEN JNothing
    ELSE IF lx[1] = <<"{">> THEN
        IF Len(lx) < 2 \/ lx[Len(lx)] /= <<"}">> THEN JNothing
        ELSE IF Len(lx) = 2 THEN JValue("dict", <<>>)
        ELSE load_items(SubSeq(lx, 2, Len(lx) - 1), <<>>)
    ELSE IF lx[1] = <<"[">> THEN
        IF Len(lx) < 2 \/ lx[Len(lx)] /= <<"]">> THEN JNothing
        ELSE IF Len(lx) = 2 THEN JValue("list", <<>>)
        ELSE load_elems(SubSeq(lx, 2, Len(lx) - 1), <<>>)
    ELSE IF Len(lx) = 1 /\ IsScalarLexeme(lx[1])
        THEN JValue("scalar", << <<(<<>>), Unlex(lx[1])>> >>)
    ELSE JNothing

\* bool(x) of a loaded value, as "if cached:" takes it
truthy(v) ==
    CASE v.kind = "none" -> FALSE
      [] v.kind \in {"dict", "list"} -> v.items /= <<>>
      [] OTHER ->
            LET x == v.items[1][2]
            IN  CASE x[1] = "str"  -> x[2] /= <<>>
                  [] x[1] = "num"  -> \E i \in 1..Len(x[2]) : x[2][i] /= "0"
                  [] x[1] = "bool" -> x[2] = j_true
                  [] OTHER         -> FALSE

----------------------------------------------------------------------------
(* The cache directory *)

NoFile == [exists |-> FALSE, data |-> <<>>]

\* _read_json
_read_json(file) == IF ~file.exists THEN JNothing ELSE json_load(file.data)

\* what a reader finds where nothing was written: a hole in the file
Hole == <<"\\0">>

\* the file after a writer appends chunk, whatever its offset
WriteAppend(data, off, chunk) == data \o chunk

\* the file after a writer puts chunk at its own offset off (counted in lexemes)
WriteAt(data, off, chunk) ==
    LET n == IF Len(data) > off + Len(chunk) THEN Len(data) ELSE off + Len(chunk)
    IN  [i \in 1..n |->
            IF i > off /\ i <= off + Len(chunk) THEN chunk[i - off]
            ELSE IF i <= Len(data) THEN data[i]
            ELSE Hole]

\* open(path, "w"): the file is created or truncated
OpenW(file) == [exists |-> TRUE, data |-> <<>>]

----------------------------------------------------------------------------
(* run_forecast *)

k_cache_hit == <<"c", "a", "c", "h", "e", "_", "h", "i", "t">>
k_forecast  == <<"f", "o", "r", "e", "c", "a", "s", "t">>

s_monthly == <<"m", "o", "n", "t", "h", "l", "y">>
s_weekly  == <<"w", "e", "e", "k", "l", "y">>
s_yearly  == <<"y", "e", "a", "r", "l", "y">>
s_All     == <<"A", "l", "l">>
s_Toys    == <<"T", "o", "y", "s">>

Threads == {"t1", "t2"}

\* run_forecast calls made in all
MaxCalls == 3
\* modifications of the cache directory from outside the program
MaxTamper == 1
\* lexemes the file object buffers before it writes them through
BufLexemes == 12

\* the parameter bundles the request threads send
Requests ==
    { << <<k_freq, s_monthly>>, <<k_scenario, s_base>> >>,
      << <<k_scenario, <<" ", "B", "A", "S", "E">> >>, <<k_freq, s_monthly>> >>,
      << <<k_freq, s_weekly>>, <<k_scenario, s_aggressive>> >>,
      << <<k_freq, s_monthly>>, <<k_category, s_Toys>> >> }

Keys == {_cache_key(params2_of(P)) : P \in Requests}

\* The engine collaborator, a deterministic function of its parameters: the
\* series provider finds no data for one category and raises; otherwise the
\* forecast total depends on the frequency.
EngineRaises(params2) == dict_get(params2, k_category, s_All) = s_Toys
EngineRaw(params2) == IF dict_get(params2, k_freq, s_monthly) = s_weekly THEN 50 ELSE 100

RECURSIVE FromDigits(_)
\* float(x) of a number written in digits
FromDigits(x) ==
    IF x = <<>> THEN 0
    ELSE FromDigits(SubSeq(x, 1, Len(x) - 1)) * 10
         + ((CHOOSE d \in 1..Len(Digits) : Digits[d] = x[Len(x)]) - 1)

\* engine_to_payload: the canonical payload of the engine's raw output
engine_to_payload(raw, freq, category) ==
    << <<k_freq, PyStr(freq)>>,
       <<k_category, PyStr(category)>>,
       <<k_forecast, PyNum(ToDigits(raw))>> >>

\* apply_scenario: the scenario tag is set and the forecast rescaled
apply_scenario(payload, scenario) ==
    LET sc  == _safe_scenario(scenario)
        out == dict_set(payload, k_scenario, PyStr(sc))
    IN  [i \in 1..Len(out) |->
            IF out[i][1] = k_forecast
            THEN <<k_forecast,
                   PyNum(ToDigits((FromDigits(out[i][2][2]) * SCENARIO_FACTOR[sc]) \div 100))>>
            ELSE out[i]]

\* run_forecast, lines 148-165: the payload of a miss
build_payload(params2) ==
    LET scenario == dict_get(params2, k_scenario, s_base)
        base == engine_to_payload(EngineRaw(params2),
                                  dict_get(params2, k_freq, s_monthly),
                                  dict_get(params2, k_category, s_All))
    IN  apply_scenario(dict_set(base, k_cache_hit, PyFalse), scenario)

\* the payload with the cache_hit flag left out
without_hit(d) == {d[i] : i \in {j \in 1..Len(d) : d[j][1] /= k_cache_hit}}

NoResult == [status |-> "none", err |-> "", value |-> <<>>]
Returned(value) == [status |-> "ok", err |-> "", value |-> value]
Raised(err) == [status |-> "raised", err |-> err, value |-> <<>>]

IdleThread ==
    [pc |-> "idle", params2 |-> <<>>, key |-> <<>>,
     payload |-> <<>>, off |-> 0, engineCalls |-> 0,
     sawStored |-> <<>>, sawKind |-> "none"]

NoStored == [k \in Keys |-> <<>>]

CacheInit ==
    /\ dirExists = FALSE
    /\ files = [k \in Keys |-> NoFile]
    /\ th = [t \in Threads |-> IdleThread]
    /\ result = [t \in Threads |-> NoResult]
    /\ calls = 0
    /\ hist = [stored |-> NoStored, faulted |-> {}]
    /\ tampers = 0

KeyIdle   == keyIn = <<>> /\ keyOut = <<>>
AlignIdle == alignIn = <<>> /\ alignOut = <<>>
FeatIdle  == featIn = <<>> /\ featOut = <<>>
FcIdle    == fcIn = <<>> /\ fc = <<>>
ScIdle    == scIn = <<>> /\ scOut = <<>>
JsIdle    == jsIn = <<>> /\ jsOut = <<>>

\* run_forecast, lines 135-140: a request arrives at a thread
Start(t, P) ==
    /\ th[t].pc \in {"idle", "done"}
    /\ calls < MaxCalls
    /\ calls' = calls + 1
    /\ th' = [th EXCEPT ![t] =
                [pc |-> "read",
                 params2 |-> params2_of(P), key |-> _cache_key(params2_of(P)),
                 payload |-> <<>>, off |-> 0, engineCalls |-> 0,
                 sawStored |-> <<>>, sawKind |-> "none"]]
    /\ result' = [result EXCEPT ![t] = NoResult]
    /\ UNCHANGED <<dirExists, files, hist, tampers, keyVars, alignVars, featVars, fcVars, scVars, jsVars>>

\* run_forecast, lines 142-145: the cache is read; a truthy value is
\* returned with cache_hit set, which only a dict accepts
ReadCache(t) ==
    /\ th[t].pc = "read"
    /\ LET cached == _read_json(files[th[t].key])
           seen   == [th[t] EXCEPT !.sawStored = hist.stored[th[t].key],
                                   !.sawKind = cached.kind]
       IN  IF truthy(cached)
           THEN /\ th' = [th EXCEPT ![t] = [seen EXCEPT !.pc = "done"]]
                /\ result' = [result EXCEPT ![t] =
                       IF cached.kind = "dict"
                       THEN Returned(dict_set(cached.items, k_cache_hit, PyTrue))
                       ELSE Raised("TypeError")]
           ELSE /\ th' = [th EXCEPT ![t] = [seen EXCEPT !.pc = "engine"]]
                /\ UNCHANGED result
    /\ UNCHANGED <<dirExists, files, calls, hist, tampers, keyVars, alignVars, featVars, fcVars, scVars, jsVars>>

\* run_forecast, lines 148-165: the engine runs, then the payload is built
CallEngine(t) ==
    /\ th[t].pc = "engine"
    /\ IF EngineRaises(th[t].params2)
       THEN /\ th' = [th EXCEPT ![t].pc = "done", ![t].engineCalls = @ + 1]
            /\ result' = [result EXCEPT ![t] = Raised("ValueError")]
       ELSE /\ th' = [th EXCEPT ![t].pc = "open", ![t].engineCalls = @ + 1,
                                ![t].payload = build_payload(th[t].params2)]
            /\ UNCHANGED result
    /\ UNCHANGED <<dirExists, files, calls, hist, tampers, keyVars, alignVars, featVars, fcVars, scVars, jsVars>>

\* _write_json, lines 47-51: the directory is made and the file opened for writing
OpenFile(t) ==
    /\ th[t].pc = "open"
    /\ dirExists' = TRUE
    /\ files' = [files EXCEPT ![th[t].key] = OpenW(@)]
    /\ th' = [th EXCEPT ![t].pc = "write", ![t].off = 0]
    /\ hist' = [hist EXCEPT !.stored = NoStored]
    /\ UNCHANGED <<result, calls, tampers, keyVars, alignVars, featVars, fcVars, scVars, jsVars>>

\* _write_json, line 52: json.dump fills the buffer, which is written through
FlushBuffer(t) ==
    /\ th[t].pc = "write"
    /\ Len(json_dump(th[t].payload)) - th[t].off > BufLexemes
    /\ files' = [files EXCEPT ![th[t].key].data =
                    WriteAt(@, th[t].off,
                            SubSeq(json_dump(th[t].payload),
                                   th[t].off + 1, th[t].off + BufLexemes))]
    /\ th' = [th EXCEPT ![t].off = @ + BufLexemes]
    /\ hist' = [hist EXCEPT !.stored = NoStored]
    /\ UNCHANGED <<dirExists, result, calls, tampers, keyVars, alignVars, featVars, fcVars, scVars, jsVars>>

\* _write_json, line 52 and the end of the with block, then run_forecast,
\* line 168: the rest is written, the file closed and the payload returned
CloseFile(t) ==
    /\ th[t].pc = "write"
    /\ Len(json_dump(th[t].payload)) - th[t].off <= BufLexemes
    /\ files' = [files EXCEPT ![th[t].key].data =
                    WriteAt(@, th[t].off,
                            SubSeq(json_dump(th[t].payload),
                                   th[t].off + 1, Len(json_dump(th[t].payload))))]
    /\ th' = [th EXCEPT ![t].pc = "done"]
    /\ result' = [result EXCEPT ![t] = Returned(th[t].payload)]
    /\ hist' = [hist EXCEPT !.stored = [NoStored EXCEPT ![th[t].key] = th[t].payload]]
    /\ UNCHANGED <<dirExists, calls, tampers, keyVars, alignVars, featVars, fcVars, scVars, jsVars>>

\* _write_json, line 52: a write fails (OSError); what was written through stays
WriteFails(t) ==
    /\ th[t].pc = "write"
    /\ th' = [th EXCEPT ![t].pc = "done"]
    /\ result' = [result EXCEPT ![t] = Raised("OSError")]
    /\ hist' = [hist EXCEPT !.faulted = @ \cup {th[t].key}]
    /\ UNCHANGED <<dirExists, files, calls, tampers, keyVars, alignVars, featVars, fcVars, scVars, jsVars>>

\* what something outside the program may leave in a cache file: nothing,
\* bytes that are no JSON, and JSON values that are no payload
TamperData ==
    { <<>>,
      <<(<<"#">>)>>,
      <<(<<"{">>), <<"\"", "f", "r", "e", "q", "\"">>, <<":">> >>,
      <<(<<"[">>), <<"]">> >>,
      <<(<<"[">>), <<"1">>, <<"]">> >>,
      <<(<<"\"", "x", "\"">>)>>,
      <<(<<"7">>)>>,
      <<(<<"0">>)>>,
      <<j_null>>,
      <<(<<"{">>), <<"}">> >> }

\* the cache directory is changed from outside
Tamper(k, data) ==
    /\ tampers < MaxTamper
    /\ tampers' = tampers + 1
    /\ dirExists' = TRUE
    /\ files' = [files EXCEPT ![k] = [exists |-> TRUE, data |-> data]]
    /\ hist' = [stored |-> NoStored, faulted |-> hist.faulted \cup {k}]
    /\ UNCHANGED <<th, result, calls, keyVars, alignVars, featVars, fcVars, scVars, jsVars>>

Init == CacheInit /\ KeyIdle /\ AlignIdle /\ FeatIdle /\ FcIdle /\ ScIdle /\ JsIdle

Next ==
    \/ \E t \in Threads, P \in Requests : Start(t, P)
    \/ \E t \in Threads : ReadCache(t)
    \/ \E t \in Threads : CallEngine(t)
    \/ \E t \in Threads : OpenFile(t)
    \/ \E t \in Threads : FlushBuffer(t)
    \/ \E t \in Threads : CloseFile(t)
    \/ \E t \in Threads : WriteFails(t)

Spec == Init /\ [][Next]_vars

\* One request thread, and a cache directory that is modified from outside
NextTamper ==
    \/ \E P \in Requests : Start("t1", P)
    \/ ReadCache("t1")
    \/ CallEngine("t1")
    \/ OpenFile("t1")
    \/ FlushBuffer("t1")
    \/ CloseFile("t1")
    \/ WriteFails("t1")
    \/ \E k \in Keys, data \in TamperData : Tamper(k, data)

SpecTamper == Init /\ [][NextTamper]_vars

----------------------------------------------------------------------------
(* Claims about the cache orchestrator *)

\* the call of thread t has gone past the cache read
PastRead(t) == th[t].pc \notin {"idle", "read"}

cache_hit_of(res) == dict_get(res.value, k_cache_hit, PyNone)

\* C1: after a call with parameters P missed the cache and returned, a later
\* call with the same P, made while the cache directory is as that call left
\* it, returns cache_hit=true, does not call the engine, and returns the
\* payload of the first call in every field but cache_hit.
C1_LaterCallHits ==
    \A t \in Threads :
        (PastRead(t) /\ th[t].sawStored /= <<>>) =>
            /\ th[t].pc = "done"
            /\ th[t].engineCalls = 0
            /\ result[t].status = "ok"
            /\ cache_hit_of(result[t]) = PyTrue
            /\ without_hit(result[t].value) = without_hit(th[t].sawStored)

\* C2: whatever the cache file holds that is no payload object (missing,
\* empty, truncated, no JSON, or a JSON list, string or number), the call
\* takes it as a miss: it does not raise because of the file, calls the
\* engine and returns with cache_hit=false.
C2_NonPayloadIsMiss ==
    \A t \in Threads :
        (PastRead(t) /\ th[t].sawKind /= "dict") =>
            /\ result[t].err /= "TypeError"
            /\ th[t].pc = "done" => th[t].engineCalls = 1
            /\ result[t].status = "ok" => cache_hit_of(result[t]) = PyFalse

\* the complete documents a key's file may hold: the payloads of its requests
CompleteDocs(k) ==
    {json_dump(build_payload(params2_of(P))) :
        P \in {Q \in Requests : _cache_key(params2_of(Q)) = k}}

\* C3: a cache entry is never partially written: at every moment the file
\* of a key is absent or holds a complete payload, the previous or the new one.
C3_NeverPartial ==
    \A k \in Keys : files[k].exists => files[k].data \in CompleteDocs(k)

\* two calls on the same key have both missed and both finished, the engine
\* serves their parameters and no write to the key failed
BothMissed(t1, t2) ==
    /\ t1 /= t2
    /\ th[t1].pc = "done" /\ th[t2].pc = "done"
    /\ th[t1].key = th[t2].key
    /\ th[t1].engineCalls = 1 /\ th[t2].engineCalls = 1
    /\ ~EngineRaises(th[t1].params2)
    /\ th[t1].key \notin hist.faulted
    /\ \A t \in Threads : th[t].key = th[t1].key => th[t].pc \in {"idle", "done"}

\* C4: when two calls with the same parameters run concurrently and both
\* miss, both return without error with cache_hit=false, and once both have
\* finished the file of the key holds one complete payload, the one a single
\* request stores.
C4_BothMissLastWriterWins ==
    \A t1, t2 \in Threads :
        BothMissed(t1, t2) =>
            /\ result[t1] = Returned(build_payload(th[t1].params2))
            /\ result[t2] = Returned(build_payload(th[t2].params2))
            /\ cache_hit_of(result[t1]) = PyFalse
            /\ cache_hit_of(result[t2]) = PyFalse
            /\ files[th[t1].key] =
                   [exists |-> TRUE, data |-> json_dump(build_payload(th[t1].params2))]
            /\ dict_eq(json_load(files[th[t1].key].data).items,
                       build_payload(th[t1].params2))

C4_Witness ==
    \E t1, t2 \in Threads :
        /\ BothMissed(t1, t2)
        /\ result[t1].status = "ok" /\ result[t2].status = "ok"
        /\ json_load(files[th[t1].key].data).kind = "dict"

----------------------------------------------------------------------------
(* The cache key as a function of the request (SpecKey) *)

\* spellings of a scenario name that the normalization accepts
Spellings(c) ==
    { c,
      upper(c),
      upper(<<c[1]>>) \o Tail(c),
      <<"\t", " ">> \o upper(c) \o <<" ">> }

\* scenario values that name no scenario
Unrecognized ==
    { <<>>, None, <<" ">>, <<"b", "a", "s">>, <<"b", "a", " ", "s", "e">> }

\* how a request gives its scenario, with the scenario the request means
ScenarioInputs ==
    UNION { {[given |-> TRUE, text |-> sp, intended |-> c] : sp \in Spellings(c)} :
              c \in DOMAIN SCENARIO_FACTOR }
    \cup {[given |-> TRUE, text |-> u, intended |-> s_base] : u \in Unrecognized}
    \cup {[given |-> FALSE, text |-> <<>>, intended |-> s_base]}

\* the other parameters of a request
OtherParams ==
    { { <<k_freq, s_monthly>>, <<k_category, s_All>> },
      { <<k_freq, s_weekly>>, <<k_category, s_All>> } }

\* every order in which a set of pairs may be supplied
Orders(S) ==
    {q \in [1..Cardinality(S) -> S] : \A i, j \in 1..Cardinality(S) : q[i] = q[j] => i = j}

KeyRequests ==
    UNION { { [params |-> q, others |-> o, intended |-> sc.intended] :
                q \in Orders(IF sc.given THEN o \cup {<<k_scenario, sc.text>>} ELSE o) } :
              o \in OtherParams, sc \in ScenarioInputs }

KeyInit ==
    /\ keyIn \in KeyRequests \X KeyRequests
    /\ keyOut = <<>>

\* run_forecast, lines 135-139, for the next of the two requests
ComputeKey ==
    /\ Len(keyOut) < Len(keyIn)
    /\ keyOut' = Append(keyOut, _cache_key(params2_of(keyIn[Len(keyOut) + 1].params)))
    /\ UNCHANGED <<keyIn, cacheVars, alignVars, featVars, fcVars, scVars, jsVars>>

CacheIdle ==
    /\ dirExists = FALSE
    /\ files = <<>>
    /\ th = <<>>
    /\ result = <<>>
    /\ calls = 0
    /\ hist = <<>>
    /\ tampers = 0

InitKey == KeyInit /\ CacheIdle /\ AlignIdle /\ FeatIdle /\ FcIdle /\ ScIdle /\ JsIdle

NextKey == ComputeKey

SpecKey == InitKey /\ [][NextKey]_vars

\* C5: the cache key depends only on the set of (name, value) pairs after
\* scenario normalization: two requests with the same other parameters, in
\* any order, whose scenario spellings mean the same scenario (a missing,
\* empty or unrecognized one meaning base) get the same key.
C5_KeyOfNormalizedSet ==
    (Len(keyOut) = 2
        /\ keyIn[1].others = keyIn[2].others
        /\ keyIn[1].intended = keyIn[2].intended)
    => keyOut[1] = keyOut[2]

C5_Witness ==
    /\ Len(keyOut) = 2
    /\ keyIn[1].others = keyIn[2].others
    /\ keyIn[1].intended = s_aggressive /\ keyIn[2].intended = s_aggressive
    /\ keyIn[1].params[1][1] = k_scenario
    /\ keyIn[2].params[1][1] /= k_scenario
    /\ dict_get(keyIn[1].params, k_scenario, <<>>) /= dict_get(keyIn[2].params, k_scenario, <<>>)
    /\ keyOut[1] = keyOut[2]

----------------------------------------------------------------------------
(* The aligner (SpecAlign).  A timestamp is a day number, day 0 being       *)
(* Wednesday 2014-01-01; a series is a sequence of <<ds, y>> rows.          *)

\* the months of a year, in days
YearLens(feb) == <<31, feb, 31, 30, 31, 30, 31, 31, 30, 31, 30, 31>>

\* the months the model's calendar covers (January 2014 to December 2016), in days
MonthLens == YearLens(28) \o YearLens(28) \o YearLens(29)

RECURSIVE DaysBefore(_)
\* the day number of the first day of month m
DaysBefore(m) == IF m = 1 THEN 0 ELSE DaysBefore(m - 1) + MonthLens[m - 1]

MonthStarts == {DaysBefore(m) : m \in 1..Len(MonthLens)}

WeekdayNames == <<"MON", "TUE", "WED", "THU", "FRI", "SAT", "SUN">>

\* Timestamp.strftime("%a").upper()
strftime_a(d) == WeekdayNames[((d + 2) % 7) + 1]

\* a missing value
NaN == 0 - 1

\* DataFrame.sort_values("ds"): rows by ds, equal ones in their order
RECURSIVE sort_values(_)
sort_values(rows) ==
    IF rows = <<>> THEN <<>>
    ELSE LET i == CHOOSE i \in 1..Len(rows) :
                    /\ \A j \in 1..Len(rows) : rows[i][1] <= rows[j][1]
                    /\ \A j \in 1..(i - 1) : rows[j][1] /= rows[i][1]
         IN  <<rows[i]>> \o sort_values([j \in 1..(Len(rows) - 1) |->
                                            IF j < i THEN rows[j] ELSE rows[j + 1]])

\* the anchor is always the old default
_weekly_rule_default(idx) == <<"W", "SUN">>

_weekly_rule_from_data(idx) ==
    IF Len(idx) = 0 THEN <<"W", "SUN">>
    ELSE LET anchor == strftime_a(idx[1])
         IN  IF anchor \notin {"MON", "TUE", "WED", "THU", "FRI", "SAT", "SUN"}
             THEN <<"W", "SUN">>
             ELSE <<"W", anchor>>

\* whether day d lies on the grid of a pandas frequency rule
OnOffset(rule, d) ==
    IF rule[1] = "W" THEN strftime_a(d) = rule[2] ELSE d \in MonthStarts

RECURSIVE Ascending(_)
\* the members of a set of days, in order
Ascending(S) ==
    IF S = {} THEN <<>>
    ELSE <<SetMin(S)>> \o Ascending(S \ {SetMin(S)})

\* pd.date_range(start, end, freq=rule)
date_range(start, end, rule) ==
    Ascending({d \in start..end : OnOffset(rule, d)})

\* DataFrame.reindex(full_idx) followed by fillna(0.0) on y
reindex_fillna(tmp, full_idx) ==
    [i \in 1..Len(full_idx) |->
        LET at == {j \in 1..Len(tmp) : tmp[j][1] = full_idx[i]}
            y  == IF at = {} THEN NaN ELSE tmp[CHOOSE j \in at : TRUE][2]
        IN  <<full_idx[i], IF y = NaN THEN 0 ELSE y>>]

Aligned(rows) == [status |-> "ok", err |-> "", rows |-> rows]
AlignRaised(err) == [status |-> "raised", err |-> err, rows |-> <<>>]

_align_series(series_df, freq0) ==
    LET freq == strip(lower(IF freq0 = None THEN <<>> ELSE freq0))
        tmp  == sort_values(series_df)
        idx  == [i \in 1..Len(tmp) |-> tmp[i][1]]
        rule == IF freq = s_weekly THEN _weekly_rule_from_data(idx) ELSE <<"MS">>
    IN  IF Len(tmp) = 0
        THEN AlignRaised("ValueError")     \* date_range(NaT, NaT)
        ELSE IF \E i, j \in 1..Len(tmp) : i /= j /\ idx[i] = idx[j]
        THEN AlignRaised("ValueError")     \* reindex on duplicate labels
        ELSE Aligned(reindex_fillna(tmp, date_range(idx[1], idx[Len(idx)], rule)))

\* observations an input series may hold
MaxObs == 3

\* days observed: on and off the weekly grid of day 0 and the month starts
ObsDays == {0, 7, 10, 14, 31, 59}
ObsValues == {0, 5}

\* frequency tags, with the frequency each means ("other": none)
FreqInputs ==
    { [text |-> s_weekly, means |-> "weekly"],
      [text |-> <<" ", "W", "e", "e", "k", "l", "y">>, means |-> "weekly"],
      [text |-> s_monthly, means |-> "monthly"],
      [text |-> s_yearly, means |-> "yearly"],
      [text |-> <<"d", "a", "i", "l", "y">>, means |-> "other"] }

SeriesInputs ==
    UNION {[1..n -> ObsDays \X ObsValues] : n \in 0..MaxObs}

NotAligned == [status |-> "none", err |-> "", rows |-> <<>>]

AlignInit ==
    /\ alignIn \in [series : SeriesInputs, freq : FreqInputs]
    /\ alignOut = NotAligned

\* _align_series is applied to the input
Align ==
    /\ alignOut = NotAligned
    /\ alignOut' = _align_series(alignIn.series, alignIn.freq.text)
    /\ UNCHANGED <<alignIn, cacheVars, keyVars, featVars, fcVars, scVars, jsVars>>

InitAlign == AlignInit /\ CacheIdle /\ KeyIdle /\ FeatIdle /\ FcIdle /\ ScIdle /\ JsIdle

NextAlign == Align

SpecAlign == InitAlign /\ [][NextAlign]_vars

ObservedDays == {alignIn.series[i][1] : i \in 1..Len(alignIn.series)}

\* C6: the aligned timestamps are strictly increasing, one step apart: for
\* weekly they are t0, t0+7, t0+14, ... with t0 the earliest observed day,
\* all on t0's weekday; for monthly and yearly they are consecutive month starts.
C6_RegularGrid ==
    alignOut.status = "ok" =>
        LET rows == alignOut.rows
            t0   == SetMin(ObservedDays)
        IN  /\ \A i \in 1..(Len(rows) - 1) : rows[i][1] < rows[i + 1][1]
            /\ alignIn.freq.means = "weekly" =>
                   /\ Len(rows) >= 1
                   /\ \A i \in 1..Len(rows) :
                          /\ rows[i][1] = t0 + 7 * (i - 1)
                          /\ strftime_a(rows[i][1]) = strftime_a(t0)
            /\ alignIn.freq.means \in {"monthly", "yearly"} =>
                   /\ \A i \in 1..Len(rows) : rows[i][1] \in MonthStarts
                   /\ \A i \in 1..(Len(rows) - 1) :
                          ~\E m \in MonthStarts : rows[i][1] < m /\ m < rows[i + 1][1]

C6_Witness ==
    /\ alignOut.status = "ok"
    /\ alignIn.freq.means = "weekly"
    /\ alignIn.series[1][1] = 14
    /\ SetMin(ObservedDays) = 0
    /\ 7 \notin ObservedDays
    /\ Len(alignOut.rows) = 3
    /\ \A i \in 1..3 : strftime_a(alignOut.rows[i][1]) = "WED"

\* C7: for every input series and each of the three frequencies, the
\* aligned series runs from the earliest to the latest observed timestamp, holds every observed (timestamp, value) pair unchanged, and
\* holds 0 at the grid timestamps that were not observed.
C7_KeepsObservations ==
    (alignOut.status = "ok" /\ alignIn.freq.means /= "other") =>
        LET rows == alignOut.rows
        IN  /\ Len(rows) >= 1
            /\ rows[1][1] = SetMin(ObservedDays)
            /\ rows[Len(rows)][1] = SetMax(ObservedDays)
            /\ \A i \in 1..Len(alignIn.series) :
                   \E j \in 1..Len(rows) : rows[j] = alignIn.series[i]
            /\ \A j \in 1..Len(rows) :
                   rows[j][1] \notin ObservedDays => rows[j][2] = 0

\* C8: the aligner fails with a ValueError whenever the frequency tag is not
\* weekly, monthly or yearly, and never aligns under such a tag.
C8_UnknownFreqRaises ==
    (alignOut /= NotAligned /\ alignIn.freq.means = "other") =>
        alignOut = AlignRaised("ValueError")

----------------------------------------------------------------------------
(* The feature builder (SpecFeat).  The series is the sequence of its y     *)
(* values, a row's position standing for its ds; positions are counted      *)
(* from 0 as pandas does.  Means and standard deviations are kept exact:    *)
(* a mean as <<sum, w>>, a standard deviation by its variance               *)
(* <<w * sum of squares - sum^2, w * (w - 1)>>.                             *)

LagList(freq) == IF freq = s_weekly THEN {1, 2, 3, 4, 8, 13} ELSE {1, 2, 3, 6, 12}
RollWindows(freq) == IF freq = s_weekly THEN {4, 8, 13} ELSE {3, 6, 12}

\* Series.shift(l): the value l rows earlier (i counts rows from 1)
shift(y, l) == [i \in 1..Len(y) |-> IF i > l THEN y[i - l] ELSE NaN]

\* the squares of the values that are there
squares(x) == [j \in 1..Len(x) |-> IF x[j] = NaN THEN NaN ELSE x[j] * x[j]]

RECURSIVE SumRange(_, _, _)
SumRange(x, a, b) == IF a > b THEN 0 ELSE x[a] + SumRange(x, a + 1, b)

\* whether the window of w rows ending at row i holds w values
WindowFull(x, i, w) == i >= w /\ \A j \in (i - w + 1)..i : x[j] /= NaN

\* Series.rolling(w).sum(), .mean() and .std() at row i
rolling_sum(x, i, w) ==
    IF WindowFull(x, i, w) THEN SumRange(x, i - w + 1, i) ELSE NaN
rolling_mean(x, i, w) ==
    IF WindowFull(x, i, w) THEN <<SumRange(x, i - w + 1, i), w>> ELSE <<NaN, w>>
rolling_std(x, i, w) ==
    IF WindowFull(x, i, w)
    THEN <<w * SumRange(squares(x), i - w + 1, i)
             - SumRange(x, i - w + 1, i) * SumRange(x, i - w + 1, i),
           w * (w - 1)>>
    ELSE <<NaN, w * (w - 1)>>

\* the series the rolling statistics are taken of, were it not shifted
rolled_unshifted(y) == y

\* the series the rolling statistics are taken of: out["y"].shift(1)
rolled(y) == shift(y, 1)

\* the frame before dropna: one row per position
feature_frame(y, freq) ==
    LET shifted == rolled(y)
    IN  [i \in 1..Len(y) |->
            [pos       |-> i - 1,
             y         |-> y[i],
             lag       |-> [l \in LagList(freq) |-> shift(y, l)[i]],
             roll_mean |-> [w \in RollWindows(freq) |-> rolling_mean(shifted, i, w)],
             roll_std  |-> [w \in RollWindows(freq) |-> rolling_std(shifted, i, w)],
             roll_sum  |-> [w \in RollWindows(freq) |-> rolling_sum(shifted, i, w)]]]

HasNaN(row) ==
    \/ row.y = NaN
    \/ \E l \in DOMAIN row.lag : row.lag[l] = NaN
    \/ \E w \in DOMAIN row.roll_sum :
          row.roll_sum[w] = NaN \/ row.roll_mean[w][1] = NaN \/ row.roll_std[w][1] = NaN

RECURSIVE SelectRows(_, _)
SelectRows(rows, keep) ==
    IF rows = <<>> THEN <<>>
    ELSE (IF rows[1].pos \in keep THEN <<rows[1]>> ELSE <<>>)
         \o SelectRows(Tail(rows), keep)

\* rows are dropped only for a missing y
dropna_y_only(rows) ==
    SelectRows(rows, {rows[i].pos : i \in {j \in 1..Len(rows) : rows[j].y /= NaN}})

\* DataFrame.dropna().reset_index(drop=True)
dropna(rows) ==
    SelectRows(rows, {rows[i].pos : i \in {j \in 1..Len(rows) : ~HasNaN(rows[j])}})

FeatOk(rows) == [status |-> "ok", err |-> "", rows |-> rows]
FeatRaised(err) == [status |-> "raised", err |-> err, rows |-> <<>>]

add_lag_rolling_features(series_df, freq0) ==
    LET freq == strip(lower(freq0))
    IN  IF freq \notin {s_weekly, s_monthly, s_yearly}
        THEN FeatRaised("ValueError")
        ELSE FeatOk(dropna(feature_frame(series_df, freq)))

\* points of an input series
MaxLen == 15
\* the sales of an ordinary period and of one that stands out
Sales == [level |-> 3, spike |-> 7]
\* values a perturbed point takes
OtherSales == {0, 9}

\* the input series: level sales, with a spike at one period or none
FeatSeries ==
    UNION { { [j \in 1..n |-> IF j = at THEN Sales.spike ELSE Sales.level] :
                at \in 0..n } :
              n \in 1..MaxLen }

\* an input series, a frequency tag, and the same series with the value of
\* one row changed
FeatInit ==
    /\ featIn \in { f \in [y : FeatSeries, freq : FreqInputs, at : 1..MaxLen, to : OtherSales] :
                      f.at <= Len(f.y) }
    /\ featOut = <<>>

perturbed(f) == [f.y EXCEPT ![f.at] = f.to]

\* add_lag_rolling_features is applied to the series, then to the perturbed one
BuildFeatures ==
    /\ Len(featOut) < 2
    /\ featOut' = Append(featOut,
                         add_lag_rolling_features(
                             IF featOut = <<>> THEN featIn.y ELSE perturbed(featIn),
                             featIn.freq.text))
    /\ UNCHANGED <<featIn, cacheVars, keyVars, alignVars, fcVars, scVars, jsVars>>

InitFeat == FeatInit /\ CacheIdle /\ KeyIdle /\ AlignIdle /\ FcIdle /\ ScIdle /\ JsIdle

NextFeat == BuildFeatures

SpecFeat == InitFeat /\ [][NextFeat]_vars

\* the row of position p among rows, when it is there
HasRow(rows, p) == \E i \in 1..Len(rows) : rows[i].pos = p
RowAt(rows, p) == rows[CHOOSE i \in 1..Len(rows) : rows[i].pos = p]

SameFeatures(a, b) ==
    /\ a.lag = b.lag
    /\ a.roll_mean = b.roll_mean /\ a.roll_std = b.roll_std /\ a.roll_sum = b.roll_sum

\* C9: of two series that differ only in the value at position i, the lag
\* and rolling features of every row up to and including row i are the same
\* in both, while lag_k of row i+k differs: a row's features depend only on
\* values at strictly earlier positions.
C9_NoLookahead ==
    (Len(featOut) = 2 /\ featOut[1].status = "ok") =>
        LET A == featOut[1].rows
            B == featOut[2].rows
            p == featIn.at - 1
        IN  /\ featOut[2].status = "ok"
            /\ \A q \in 0..(Len(featIn.y) - 1) : HasRow(A, q) <=> HasRow(B, q)
            /\ \A q \in 0..p : HasRow(A, q) => SameFeatures(RowAt(A, q), RowAt(B, q))
            /\ \A k \in 1..Len(featIn.y) :
                   (HasRow(A, p + k) /\ k \in DOMAIN RowAt(A, p + k).lag) =>
                       RowAt(A, p + k).lag[k] /= RowAt(B, p + k).lag[k]


C9_Witness ==
    /\ Len(featOut) = 2 /\ featOut[1].status = "ok"
    /\ featIn.freq.means = "weekly"
    /\ featIn.at = 14
    /\ HasRow(featOut[1].rows, 13) /\ HasRow(featOut[1].rows, 14)
    /\ SameFeatures(RowAt(featOut[1].rows, 13), RowAt(featOut[2].rows, 13))
    /\ RowAt(featOut[1].rows, 13).y /= RowAt(featOut[2].rows, 13).y
    /\ RowAt(featOut[1].rows, 14).lag[1] /= RowAt(featOut[2].rows, 14).lag[1]
    /\ RowAt(featOut[1].rows, 14).roll_sum[4] /= RowAt(featOut[2].rows, 14).roll_sum[4]

\* the history a row needs: the longest lag and window of its frequency
FullHistory(means) == IF means = "weekly" THEN 13 ELSE 12

\* C10: of an aligned series of n points without missing values, the row at
\* position i (from 0) is kept if and only if i >= 13 for weekly and i >= 12
\* for monthly and yearly; no kept row holds a missing or filled-in feature,
\* and max(0, n - 13), respectively max(0, n - 12), rows are kept.
C10_RowsWithFullHistory ==
    (Len(featOut) >= 1 /\ featIn.freq.means /= "other") =>
        LET rows == featOut[1].rows
            n    == Len(featIn.y)
            h    == FullHistory(featIn.freq.means)
        IN  /\ featOut[1].status = "ok"
            /\ \A i \in 0..(n - 1) : HasRow(rows, i) <=> i >= h
            /\ Len(rows) = (IF n - h > 0 THEN n - h ELSE 0)
            /\ \A r \in 1..Len(rows) :
                   /\ ~HasNaN(rows[r])
                   /\ rows[r].y = featIn.y[rows[r].pos + 1]
                   /\ \A l \in DOMAIN rows[r].lag :
                          rows[r].lag[l] = featIn.y[rows[r].pos + 1 - l]
                   /\ \A w \in DOMAIN rows[r].roll_sum :
                          rows[r].roll_sum[w] =
                              SumRange(featIn.y, rows[r].pos + 1 - w, rows[r].pos)

C10_Witness ==
    /\ Len(featOut) >= 1
    /\ featIn.freq.means = "monthly"
    /\ Len(featIn.y) = 15
    /\ Len(featOut[1].rows) = 3
    /\ featOut[1].rows[1].pos = 12

----------------------------------------------------------------------------
(* The series provider forecast_query and the recursive forecaster          *)
(* recursive_forecast (SpecForecast).  The data set is a sequence of        *)
(* <<day, sales, category>> transactions; a series is a sequence of         *)
(* <<ds, y>> rows.  The trained regressor is a function of the feature row  *)
(* it is given, drawn from Models when train_xgb returns; predictions are   *)
(* finite and not negative.                                                 *)

\* app.py, lines 84-91: apply_filter on the Category column
apply_filter(df, val) ==
    IF val /= None /\ val /= <<>> /\ val /= s_All
    THEN SelectSeq(df, LAMBDA r : r[3] = val)
    ELSE df

\* the label of the resampling bin a day falls in: 'W' bins end on Sunday
\* and carry that day, 'MS' bins start on a month start and carry it
BinLabel(rule, d) ==
    IF rule[1] = "W" THEN d + ((11 - (d % 7)) % 7)
    ELSE SetMax({m \in MonthStarts : m <= d})

RECURSIVE BinSum(_, _, _)
BinSum(df, rule, label) ==
    IF df = <<>> THEN 0
    ELSE (IF BinLabel(rule, df[1][1]) = label THEN df[1][2] ELSE 0)
         + BinSum(Tail(df), rule, label)

\* df.set_index(date)[sales].resample(rule).sum().reset_index(): one row
\* per bin from the first to the last, empty bins summing to 0
resample_sum(df, rule) ==
    LET labels == {BinLabel(rule, df[i][1]) : i \in 1..Len(df)}
        bins   == date_range(SetMin(labels), SetMax(labels), rule)
    IN  [i \in 1..Len(bins) |-> <<bins[i], BinSum(df, rule, bins[i])>>]

\* app.py, line 119: the least number of aggregated periods
MinPeriods == 6

too_short_never(series_df) == FALSE

\* app.py, line 119
too_short(series_df) == Len(series_df) < MinPeriods

\* app.py, lines 96-107: the horizon of a frequency
WeeklyHorizon == 13
MonthlyHorizon == 12

NoDataError == "ValueError: No data found for selected filters. Try selecting All."
HistoryError == "ValueError: Not enough history for forecast. Try broader filters or All."
HorizonError == "ValueError: horizon must be > 0"
LagHistoryError == "ValueError: Not enough history to build lag features for forecasting."

\* forecast_query, lines 83-120: the filtered, aggregated series, the
\* frequency and the horizon handed to recursive_forecast, or the error
forecast_query(df0, params) ==
    LET df   == apply_filter(df0, params.category)
        freq == lower(IF params.freq = None \/ params.freq = <<>> THEN s_monthly ELSE params.freq)
        rule == IF freq = s_weekly THEN <<"W", "SUN">> ELSE <<"MS">>
        horizon == IF freq = s_weekly THEN WeeklyHorizon ELSE MonthlyHorizon
        series_df == resample_sum(df, rule)
    IN  IF df = <<>>
        THEN [status |-> "raised", err |-> NoDataError, aggregated |-> FALSE,
              series |-> <<>>, freq |-> freq, horizon |-> horizon]
        ELSE IF too_short(series_df)
        THEN [status |-> "raised", err |-> HistoryError, aggregated |-> TRUE,
              series |-> series_df, freq |-> freq, horizon |-> horizon]
        ELSE [status |-> "ok", err |-> "", aggregated |-> TRUE,
              series |-> series_df, freq |-> freq, horizon |-> horizon]

\* the month a day lies in
MonthOf(d) == CHOOSE m \in 1..Len(MonthLens) : DaysBefore(m) <= d /\ d < DaysBefore(m) + MonthLens[m]

\* Timestamp + pd.DateOffset(months=1): the same day of the next month, or its last
AddMonth(d) ==
    LET m   == MonthOf(d)
        dom == d - DaysBefore(m)
    IN  DaysBefore(m + 1) + (IF dom < MonthLens[m + 1] THEN dom ELSE MonthLens[m + 1] - 1)

_step_offset_weeks(freq0, d) == d + 7

\* last_ds + _step_offset(freq)
_step_offset(freq0, d) ==
    LET freq == strip(lower(IF freq0 = None THEN <<>> ELSE freq0))
    IN  IF freq = s_weekly THEN d + 7 ELSE AddMonth(d)

\* the y column of a frame
ycol(rows) == [i \in 1..Len(rows) |-> rows[i][2]]

ffill_none(y) == y

RECURSIVE ffill(_)
\* Series.ffill(): a missing value takes the last value before it
ffill(y) ==
    IF y = <<>> THEN <<>>
    ELSE LET head == ffill(SubSeq(y, 1, Len(y) - 1))
             last == y[Len(y)]
         IN  Append(head, IF last = NaN /\ head /= <<>> THEN head[Len(head)] ELSE last)

\* the regressors train_xgb may return
Models == {"carry", "window", "flat"}

\* trained.model.predict(X_row)[0]
predict(model, row, freq) ==
    CASE model = "carry"  -> row.lag[1] + 1
      [] model = "window" -> (row.roll_sum[SetMin(RollWindows(freq))]
                                 \div SetMin(RollWindows(freq))) + 2
      [] OTHER            -> 1

keep_placeholder(history, next_ds, yhat) == history

\* history.loc[history["ds"] == next_ds, "y"] = yhat
set_prediction(history, next_ds, yhat) ==
    [i \in 1..Len(history) |->
        IF history[i][1] = next_ds THEN <<next_ds, yhat>> ELSE history[i]]

s_Tools == <<"T", "o", "o", "l", "s">>
s_Books == <<"B", "o", "o", "k", "s">>

\* the day of the last transaction of a data set
LastDays == {0, 10, 30, 33, 40, 95, 100, 160, 370}

\* the data sets load_superstore_data returns: Order Date, Sales, Category
Datasets ==
    { << <<0, 4, s_Toys>>, <<3, 2, s_Tools>>, <<last, 6, s_Toys>> >> : last \in LastDays }

\* the category filter of a request; no transaction is of category Books
CategoryInputs == {s_All, s_Toys, s_Books}

\* the freq parameter of a request, which may be missing
QueryFreqs == {f.text : f \in FreqInputs} \cup {None}

\* series handed to recursive_forecast directly: n points one week or one
\* month apart, and one out of order with a gap
DirectLens == {0, 5, 12, 13, 14, 16}
DirectSeries ==
    { [i \in 1..n |-> <<7 * (i - 1) + 2, i>>] : n \in DirectLens }
    \cup { [i \in 1..n |-> <<DaysBefore(i), i>>] : n \in DirectLens }
    \cup { << <<14, 3>>, <<0, 1>>, <<21, 4>> >> }

Horizons == {0 - 1, 0, 1, 3}

ForecastInputs ==
    [entry : {"query"}, data : Datasets, category : CategoryInputs,
     freq : QueryFreqs, horizon : {0}]
    \cup [entry : {"direct"}, data : DirectSeries, category : {None},
          freq : {f.text : f \in FreqInputs}, horizon : Horizons]

NoModel == "none"

\* the locals of forecast_query and recursive_forecast; used, trainCalls and
\* trainRows are history: the feature row each step predicted from with the
\* number of rows found at the cursor, the calls of train_xgb and the rows
\* of the matrix it was last called with
NewForecast(pc, series, freq, horizon, aggregated) ==
    [pc |-> pc, aggregated |-> aggregated, series |-> series, freq |-> freq,
     horizon |-> horizon, actual |-> <<>>, X |-> <<>>, model |-> NoModel,
     history |-> <<>>, last_ds |-> 0, step |-> 0, preds |-> <<>>,
     used |-> <<>>, trainCalls |-> 0, trainRows |-> 0, result |-> NoResult]

ForecastInit ==
    /\ fcIn \in ForecastInputs
    /\ fc = IF fcIn.entry = "query"
            THEN NewForecast("query", <<>>, <<>>, 0, FALSE)
            ELSE NewForecast("forecast", fcIn.data, fcIn.freq, fcIn.horizon, FALSE)

ForecastRaised(err) == [fc EXCEPT !.pc = "done", !.result = Raised(err)]

\* forecast_query, lines 48-135: up to the call of recursive_forecast
ForecastQuery ==
    /\ fc.pc = "query"
    /\ LET q == forecast_query(fcIn.data, [category |-> fcIn.category, freq |-> fcIn.freq])
       IN  fc' = IF q.status = "raised"
                 THEN [fc EXCEPT !.pc = "done", !.result = Raised(q.err),
                                 !.aggregated = q.aggregated, !.series = q.series]
                 ELSE NewForecast("forecast", q.series, q.freq, q.horizon, TRUE)
    /\ UNCHANGED <<fcIn, cacheVars, keyVars, alignVars, featVars, scVars, jsVars>>

\* recursive_forecast, lines 73-80: the aligned series and the training matrix
EnterForecast ==
    /\ fc.pc = "forecast"
    /\ LET freq == strip(lower(IF fc.freq = None THEN <<>> ELSE fc.freq))
           al   == _align_series(fc.series, freq)
           feat == add_lag_rolling_features(ycol(al.rows), freq)
       IN  fc' = IF fc.horizon <= 0 THEN ForecastRaised(HorizonError)
                 ELSE IF al.status = "raised" THEN ForecastRaised(al.err)
                 ELSE IF feat.status = "raised" THEN ForecastRaised(feat.err)
                 ELSE [fc EXCEPT !.pc = "train", !.freq = freq,
                                 !.actual = al.rows, !.X = feat.rows]
    /\ UNCHANGED <<fcIn, cacheVars, keyVars, alignVars, featVars, scVars, jsVars>>

\* recursive_forecast, lines 81-89: train_xgb returns a regressor
TrainXgb(m) ==
    /\ fc.pc = "train"
    /\ LET trained == [fc EXCEPT !.trainCalls = @ + 1, !.trainRows = Len(fc.X)]
       IN  fc' = IF fc.actual = <<>>
                 THEN [trained EXCEPT !.pc = "done", !.result = Raised("IndexError")]
                 ELSE [trained EXCEPT !.pc = "loop", !.model = m,
                                      !.history = fc.actual,
                                      !.last_ds = fc.actual[Len(fc.actual)][1],
                                      !.step = 1]
    /\ UNCHANGED <<fcIn, cacheVars, keyVars, alignVars, featVars, scVars, jsVars>>

\* recursive_forecast, line 81: the library refuses a matrix without rows
TrainFails ==
    /\ fc.pc = "train"
    /\ Len(fc.X) = 0
    /\ fc' = [fc EXCEPT !.trainCalls = @ + 1, !.trainRows = 0,
                        !.pc = "done", !.result = Raised("XGBoostError")]
    /\ UNCHANGED <<fcIn, cacheVars, keyVars, alignVars, featVars, scVars, jsVars>>

\* recursive_forecast, lines 91-117: one pass of the loop
ForecastStep ==
    /\ fc.pc = "loop"
    /\ fc.step <= fc.horizon
    /\ LET next_ds  == _step_offset(fc.freq, fc.last_ds)
           history  == Append(fc.history, <<next_ds, NaN>>)
           feat_history == add_lag_rolling_features(ffill(ycol(history)), fc.freq).rows
           row      == SelectSeq(feat_history, LAMBDA r : history[r.pos + 1][1] = next_ds)
           yhat     == predict(fc.model, row[1], fc.freq)
       IN  fc' = IF row = <<>>
                 THEN [fc EXCEPT !.pc = "done", !.history = history,
                                 !.result = Raised(LagHistoryError)]
                 ELSE [fc EXCEPT !.history = set_prediction(history, next_ds, yhat),
                                 !.preds = Append(@, <<next_ds, yhat>>),
                                 !.used = Append(@, [row |-> row[1], matches |-> Len(row)]),
                                 !.last_ds = next_ds,
                                 !.step = @ + 1]
    /\ UNCHANGED <<fcIn, cacheVars, keyVars, alignVars, featVars, scVars, jsVars>>

\* recursive_forecast, lines 119-120; forecast_query hands the result on as a dict
ReturnForecast ==
    /\ fc.pc = "loop"
    /\ fc.step > fc.horizon
    /\ fc' = [fc EXCEPT !.pc = "done",
                        !.result = Returned([actual_df |-> fc.actual, forecast_df |-> fc.preds])]
    /\ UNCHANGED <<fcIn, cacheVars, keyVars, alignVars, featVars, scVars, jsVars>>

InitForecast == ForecastInit /\ CacheIdle /\ KeyIdle /\ AlignIdle /\ FeatIdle /\ ScIdle /\ JsIdle

NextForecast ==
    \/ ForecastQuery
    \/ EnterForecast
    \/ \E m \in Models : TrainXgb(m)
    \/ TrainFails
    \/ ForecastStep
    \/ ReturnForecast

SpecForecast == InitForecast /\ [][NextForecast]_vars

ForecastReturned == fc.pc = "done" /\ fc.result.status = "ok"

\* whether the forecaster steps by weeks
WeeklySteps == strip(lower(IF fc.freq = None THEN <<>> ELSE fc.freq)) = s_weekly

\* C11: whenever recursive_forecast returns, the horizon h is positive, the
\* forecast has exactly h points, the j-th of them lies j steps (weeks, or
\* months) after the last actual timestamp, so that the forecast timestamps
\* increase and follow every actual one, and the actual series returned is
\* the aligned input; with h <= 0 the call raises ValueError, having trained
\* nothing and predicted nothing.
C11_ForecastShape ==
    /\ ForecastReturned =>
          LET A    == fc.result.value.actual_df
              F    == fc.result.value.forecast_df
              last == A[Len(A)][1]
          IN  /\ fc.horizon > 0
              /\ Len(F) = fc.horizon
              /\ \A j \in 1..Len(F) :
                     IF WeeklySteps
                     THEN F[j][1] = last + 7 * j
                     ELSE /\ F[j][1] \in MonthStarts
                          /\ Cardinality({m \in MonthStarts : last < m /\ m <= F[j][1]}) = j
              /\ \A j \in 1..(Len(F) - 1) : F[j][1] < F[j + 1][1]
              /\ \A i \in 1..Len(A), j \in 1..Len(F) : A[i][1] < F[j][1]
              /\ A = _align_series(fc.series, fc.freq).rows
    /\ (fcIn.entry = "direct" /\ fc.pc /= "forecast" /\ fc.horizon <= 0) =>
          /\ fc.pc = "done"
          /\ fc.result = Raised(HorizonError)
          /\ fc.preds = <<>> /\ fc.trainCalls = 0

C11_Witness ==
    /\ ForecastReturned
    /\ fcIn.entry = "query"
    /\ ~WeeklySteps
    /\ Len(fc.result.value.actual_df) = 13
    /\ Len(fc.result.value.forecast_df) = 12
    /\ fc.result.value.forecast_df[1][1] = DaysBefore(14)
    /\ fc.result.value.forecast_df[12][1] = DaysBefore(25)

\* C12: the row predicted at step j has as lag_k the value predicted at step
\* j - k when j > k, and otherwise the actual value k - j positions before
\* the end of the actual series: each prediction is in the history before
\* the next step reads it, and no placeholder or filled-in value is a lag.
C12_LagsFollowPredictions ==
    \A j \in 1..Len(fc.used) :
        \A k \in DOMAIN fc.used[j].row.lag :
            fc.used[j].row.lag[k] =
                IF j > k THEN fc.preds[j - k][2]
                ELSE fc.actual[Len(fc.actual) - (k - j)][2]

C12_Witness ==
    /\ Len(fc.used) >= 3
    /\ fc.model = "carry"
    /\ fc.used[1].row.lag[1] = fc.actual[Len(fc.actual)][2]
    /\ fc.used[3].row.lag[1] = fc.preds[2][2]
    /\ fc.used[3].row.lag[2] = fc.preds[1][2]
    /\ fc.used[3].row.lag[3] = fc.actual[Len(fc.actual)][2]
    /\ fc.preds[2][2] /= fc.actual[Len(fc.actual)][2]

\* C13: whenever the filtered, aggregated series has fewer than 6 periods,
\* forecast_query has failed with the insufficient-history error, and no
\* model has been trained.
C13_ShortSeriesRejected ==
    (fcIn.entry = "query" /\ fc.aggregated /\ Len(fc.series) < 6) =>
        /\ fc.pc = "done"
        /\ fc.result = Raised(HistoryError)
        /\ fc.trainCalls = 0
        /\ fc.model = NoModel

C13_Witness ==
    /\ fcIn.entry = "query"
    /\ fc.aggregated
    /\ Len(fc.series) = 5
    /\ fc.result = Raised(HistoryError)
    /\ fc.trainCalls = 0

\* C19: once the training matrix had at least one row, the error "Not enough
\* history to build lag features" is never raised: every step of the loop
\* finds exactly one feature row at the cursor, and the call returns after
\* as many steps as the horizon.
C19_LagErrorUnreachable ==
    (fc.trainCalls >= 1 /\ fc.trainRows >= 1) =>
        /\ fc.result /= Raised(LagHistoryError)
        /\ \A j \in 1..Len(fc.used) : fc.used[j].matches = 1
        /\ Len(fc.used) = fc.step - 1
        /\ fc.pc = "done" => (fc.result.status = "ok" /\ Len(fc.used) = fc.horizon)

C19_Witness ==
    /\ fc.trainCalls = 1 /\ fc.trainRows = 1
    /\ ForecastReturned
    /\ Len(fc.used) = 13
    /\ fc.used[13].matches = 1

\* C20: train_xgb is never called with a feature matrix without rows: a
\* series the series provider accepts either yields a feature row or is
\* rejected before training.
C20_NeverTrainsOnEmpty ==
    (fcIn.entry = "query" /\ fc.trainCalls >= 1) => fc.trainRows >= 1

----------------------------------------------------------------------------
(* Python values of the payload layer.  A value is a tagged tuple; a float  *)
(* is an exact fraction <<n, d>> in lowest terms with d > 0, NaN being      *)
(* <<0, 0>> (rounding is not modelled).  Dict keys are strings; the strings *)
(* held as values are sequences of characters.                              *)

RECURSIVE Gcd(_, _)
Gcd(a, b) == IF b = 0 THEN a ELSE Gcd(b, a % b)

Abs(n) == IF n < 0 THEN 0 - n ELSE n

\* tuple(...): the items of a sequence, each computed once
tuple(xs) == xs \o <<>>

NaNf == <<0, 0>>

\* the fraction n / d in lowest terms
Frac(n, d) ==
    IF d = 0 THEN NaNf
    ELSE LET g == Gcd(Abs(n), Abs(d))
             k == IF d < 0 THEN 0 - 1 ELSE 1
         IN  <<(k * n) \div g, (k * d) \div g>>

IsNaNf(x) == x[2] = 0
f_add(x, y) == IF IsNaNf(x) \/ IsNaNf(y) THEN NaNf ELSE Frac(x[1] * y[2] + y[1] * x[2], x[2] * y[2])
f_sub(x, y) == IF IsNaNf(x) \/ IsNaNf(y) THEN NaNf ELSE Frac(x[1] * y[2] - y[1] * x[2], x[2] * y[2])
f_mul(x, y) == IF IsNaNf(x) \/ IsNaNf(y) THEN NaNf ELSE Frac(x[1] * y[1], x[2] * y[2])
f_div(x, y) == IF IsNaNf(x) \/ IsNaNf(y) THEN NaNf ELSE Frac(x[1] * y[2], x[2] * y[1])
\* x > y; every comparison with NaN is false
f_gt(x, y) == ~IsNaNf(x) /\ ~IsNaNf(y) /\ x[1] * y[2] > y[1] * x[2]

V_None       == <<"NoneType">>
V_bool(b)    == <<"bool", b>>
V_int(n)     == <<"int", Frac(n, 1)>>
V_float(x)   == <<"float", x>>
V_str(chars) == <<"str", chars>>
V_list(xs)   == <<"list", xs>>
V_tuple(xs)  == <<"tuple", xs>>
V_dict(kvs)  == <<"dict", kvs>>
\* numpy scalars, an array of them, and the date and time types
V_np(tag, x)     == <<tag, x>>
V_ndarray(xs)    == <<"ndarray", xs>>
V_datetime(d)    == <<"datetime", d>>
V_date(d)        == <<"date", d>>
V_Timestamp(d)   == <<"Timestamp", d>>
\* a DataFrame, by its rows as to_dict(orient="records") gives them
V_DataFrame(rows) == <<"DataFrame", rows>>
\* a set, which json_safe has no conversion for
V_set(xs) == <<"set", xs>>

NumTags == {"int", "float", "np.float64", "np.float32", "np.int64"}

\* two digits, zero-padded
Pad2(n) == IF n < 10 THEN <<"0">> \o ToDigits(n) ELSE ToDigits(n)

\* date.isoformat() of a day of the model's calendar: YYYY-MM-DD
iso_date(d) ==
    LET m == MonthOf(d)
    IN  ToDigits(2014 + ((m - 1) \div 12)) \o <<"-">> \o Pad2(((m - 1) % 12) + 1)
        \o <<"-">> \o Pad2(d - DaysBefore(m) + 1)

\* datetime.isoformat() and Timestamp.isoformat() of a day at midnight
iso_datetime(d) == iso_date(d) \o <<"T", "0", "0", ":", "0", "0", ":", "0", "0">>

\* s[:n]
prefix(chars, n) == SubSeq(chars, 1, IF Len(chars) < n THEN Len(chars) ELSE n)

\* _is_nan: isinstance(x, float) and math.isnan(x); np.float64 is a float
_is_nan(obj) == obj[1] \in {"float", "np.float64"} /\ IsNaNf(obj[2])

RECURSIVE json_safe(_)
\* json_safe, lines 14-81, branch by branch
json_safe(obj) ==
    CASE obj = V_None -> V_None
      [] obj /= V_None /\ _is_nan(obj) -> V_None
      [] obj[1] \in {"datetime", "Timestamp"} -> V_str(iso_datetime(obj[2]))
      [] obj[1] = "date" -> V_str(iso_date(obj[2]))
      [] obj[1] = "DataFrame" -> json_safe(V_list(obj[2]))
      [] obj[1] \in {"np.float64", "np.float32"} /\ ~_is_nan(obj) -> V_float(obj[2])
      [] obj[1] = "np.int64" -> <<"int", obj[2]>>
      [] obj[1] = "ndarray" ->
             json_safe(V_list(tuple([i \in 1..Len(obj[2]) |->
                                  IF obj[2][i][1] = "np.int64"
                                  THEN <<"int", obj[2][i][2]>>
                                  ELSE V_float(obj[2][i][2])])))
      [] obj[1] = "dict" ->
             V_dict(tuple([i \in 1..Len(obj[2]) |-> <<obj[2][i][1], json_safe(obj[2][i][2])>>]))
      [] obj[1] \in {"list", "tuple"} ->
             V_list(tuple([i \in 1..Len(obj[2]) |-> json_safe(obj[2][i])]))
      [] OTHER -> obj

\* what a function gives when it raises
V_raise(err) == <<"raise", err>>
IsRaise(v) == v[1] = "raise"

\* float(x)
py_float(v) ==
    IF v[1] \in NumTags THEN V_float(v[2])
    ELSE IF v[1] = "bool" THEN V_float(Frac(IF v[2] THEN 1 ELSE 0, 1))
    ELSE V_raise("TypeError")

RECURSIVE f_sum(_)
\* sum(...) of floats, from the left
f_sum(xs) == IF xs = <<>> THEN Frac(0, 1) ELSE f_add(f_sum(SubSeq(xs, 1, Len(xs) - 1)), xs[Len(xs)])

\* the column `key` of a list of records, each value through float()
float_col(rows, key) == tuple([i \in 1..Len(rows) |-> py_float(dict_get(rows[i][2], key, V_None))])
date_col(rows) == tuple([i \in 1..Len(rows) |-> prefix(dict_get(rows[i][2], "ds", V_None)[2], 10)])
fracs(vals) == tuple([i \in 1..Len(vals) |-> vals[i][2]])

first_rows(xs, n) == SubSeq(xs, 1, IF Len(xs) < n THEN Len(xs) ELSE n)

\* xs[-n:]
last_rows(xs, n) == SubSeq(xs, IF Len(xs) < n THEN 1 ELSE Len(xs) - n + 1, Len(xs))

\* serializer.py, lines 114-115: the sum of a KPI window; sum() of nothing is the int 0
kpi_sum(vals) == IF vals = <<>> THEN V_int(0) ELSE V_float(f_sum(fracs(vals)))

\* x / y of floats: dividing by zero raises
py_truediv(x, y) ==
    IF y = Frac(0, 1) THEN V_raise("ZeroDivisionError") ELSE V_float(f_div(x, y))

\* serializer.py, line 119: (next3_forecast - last3_actual) / last3_actual * 100.0
growth_ratio(last3_actual, next3_forecast) ==
    IF IsRaise(py_truediv(f_sub(next3_forecast[2], last3_actual[2]), last3_actual[2]))
    THEN V_raise("ZeroDivisionError")
    ELSE V_float(f_mul(f_div(f_sub(next3_forecast[2], last3_actual[2]), last3_actual[2]),
                       Frac(100, 1)))

growth_pct_unguarded(last3_actual, next3_forecast) == growth_ratio(last3_actual, next3_forecast)

\* serializer.py, lines 117-119 and 149: 0.0 unless last3_actual is truthy and not 0
growth_pct(last3_actual, next3_forecast) ==
    IF last3_actual[2] /= Frac(0, 1)
    THEN growth_ratio(last3_actual, next3_forecast)
    ELSE V_float(Frac(0, 1))

\* int(r["ds"][:4])
year_of(ds) == FromDigits(prefix(ds, 4))

RECURSIVE year_sum(_, _, _)
\* the sum year_map accumulates for a year, from 0.0
year_sum(dates, vals, y) ==
    IF dates = <<>> THEN Frac(0, 1)
    ELSE f_add(year_sum(SubSeq(dates, 1, Len(dates) - 1), SubSeq(vals, 1, Len(vals) - 1), y),
               IF year_of(dates[Len(dates)]) = y THEN vals[Len(vals)][2] ELSE Frac(0, 1))

\* one row of the year table
year_row(adates, avals, fdates, fvals, y) ==
    V_dict(<< <<"year", V_int(y)>>,
              <<"actual_sales", V_float(year_sum(adates, avals, y))>>,
              <<"forecast_sales", V_float(year_sum(fdates, fvals, y))>>,
              <<"total", V_float(f_add(year_sum(adates, avals, y), year_sum(fdates, fvals, y)))>> >>)

\* the rows of the year table for the years given
year_rows(adates, avals, fdates, fvals, years) ==
    tuple([i \in 1..Len(years) |-> year_row(adates, avals, fdates, fvals, years[i])])

\* serializer.py, lines 122-139
year_table(adates, avals, fdates, fvals) ==
    year_rows(adates, avals, fdates, fvals,
              Ascending({year_of(adates[i]) : i \in 1..Len(adates)}
                        \cup {year_of(fdates[i]) : i \in 1..Len(fdates)}))

\* serializer.py, lines 153-158: the insight fields, to be filled later
empty_insights ==
    V_dict(<< <<"best_predicted", V_dict(<< <<"best_date", V_None>>, <<"best_value", V_None>> >>)>>,
              <<"seasonality", V_dict(<< <<"top_month_names", V_list(<<>>)>>,
                                         <<"default_note", V_str(<<>>)>> >>)>>,
              <<"anomaly", V_dict(<< <<"is_anomaly", V_bool(FALSE)>>, <<"message", V_str(<<>>)>> >>)>>,
              <<"recommendations", V_list(<<>>)>> >>)

\* serializer.py, lines 114-119 and 146-150
kpis_of(last3_actual, next3_forecast) ==
    V_dict(<< <<"last_periods_actual", last3_actual>>,
              <<"next_periods_forecast", next3_forecast>>,
              <<"growth_pct", growth_pct(last3_actual, next3_forecast)>> >>)

\* serializer.py, lines 141-165: the payload from the dates and values of the two frames
payload_of(adates, avals, fdates, fvals, freq, filters) ==
    LET point(d, v) == V_dict(<< <<"date", V_str(d)>>, <<"value", v>> >>)
        trow(d, v)  == V_dict(<< <<"date", V_str(d)>>, <<"predicted_sales", v>> >>)
    IN  IF \E i \in 1..Len(avals) : IsRaise(avals[i]) THEN V_raise("TypeError")
        ELSE IF \E i \in 1..Len(fvals) : IsRaise(fvals[i]) THEN V_raise("TypeError")
        ELSE IF IsRaise(growth_pct(kpi_sum(last_rows(avals, 3)), kpi_sum(first_rows(fvals, 3))))
        THEN V_raise("ZeroDivisionError")
        ELSE json_safe(V_dict(<<
            <<"freq", V_str(freq)>>,
            <<"filters", filters>>,
            <<"source", V_str(<<"e", "n", "g", "i", "n", "e">>)>>,
            <<"chart", V_dict(<<
                <<"actual", V_list(tuple([i \in 1..Len(avals) |-> point(adates[i], avals[i])]))>>,
                <<"forecast", V_list(tuple([i \in 1..Len(fvals) |-> point(fdates[i], fvals[i])]))>> >>)>>,
            <<"kpis", kpis_of(kpi_sum(last_rows(avals, 3)), kpi_sum(first_rows(fvals, 3)))>>,
            <<"table", V_list(tuple([i \in 1..Len(fvals) |-> trow(fdates[i], fvals[i])]))>>,
            <<"year_table", V_list(year_table(adates, avals, fdates, fvals))>>,
            <<"insights", empty_insights>>,
            <<"meta", V_dict(<< <<"freq", V_str(freq)>>, <<"filters", filters>> >>)>> >>))

\* serializer.py, lines 96-112: the dates and the values of the rows of the two frames
rows_to_payload(actual_rows, forecast_rows, freq, filters) ==
    payload_of(date_col(actual_rows), float_col(actual_rows, "y"),
               date_col(forecast_rows), float_col(forecast_rows, "yhat"), freq, filters)

\* forecastresult_to_payload, lines 84-165
forecastresult_to_payload(fr, freq, filters) ==
    rows_to_payload(json_safe(fr.actual_df)[2], json_safe(fr.forecast_df)[2], freq, filters)
----------------------------------------------------------------------------
(* Objects.  Dicts and lists are objects of a heap, a sequence indexed by   *)
(* address; a value held in an object is a scalar or a reference            *)
(* <<"ref", address>>, so that two names can hold the same object and a     *)
(* change made through one is seen through the other.                       *)

Ref(a) == <<"ref", a>>
IsRef(v) == v[1] = "ref"

IsObject(v) == v[1] \in {"dict", "list"}

\* the values a dict or list value holds, in order
Kids(v) == tuple([i \in 1..Len(v[2]) |-> IF v[1] = "dict" THEN v[2][i][2] ELSE v[2][i]])

RECURSIVE ObjCount(_)
RECURSIVE ObjCountSeq(_)
\* the number of objects a value is made of
ObjCount(v) == IF IsObject(v) THEN 1 + ObjCountSeq(Kids(v)) ELSE 0
ObjCountSeq(vs) == IF vs = <<>> THEN 0 ELSE ObjCount(vs[1]) + ObjCountSeq(Tail(vs))

RECURSIVE Objects(_, _)
RECURSIVE ObjectsSeq(_, _)
\* the objects of a value built at the addresses after `base`, the value's
\* own object first and then those of the values it holds
Objects(v, base) ==
    IF ~IsObject(v) THEN <<>>
    ELSE LET kids  == Kids(v)
             at(i) == base + 1 + ObjCountSeq(SubSeq(kids, 1, i - 1))
             held(i) == IF IsObject(kids[i]) THEN Ref(at(i) + 1) ELSE kids[i]
         IN  <<[kind  |-> v[1],
                items |-> tuple([i \in 1..Len(kids) |->
                              IF v[1] = "dict" THEN <<v[2][i][1], held(i)>> ELSE held(i)])]>>
             \o ObjectsSeq(kids, base + 1)
ObjectsSeq(vs, base) ==
    IF vs = <<>> THEN <<>>
    ELSE Objects(vs[1], base) \o ObjectsSeq(Tail(vs), base + ObjCount(vs[1]))

\* a value built on the heap: [heap, val]
AllocVal(h, v) ==
    [heap |-> h \o Objects(v, Len(h)),
     val  |-> IF IsObject(v) THEN Ref(Len(h) + 1) ELSE v]

RECURSIVE Deref(_, _)
\* the value a name holds, its objects written out
Deref(h, v) ==
    IF IsRef(v)
    THEN LET o == h[v[2]]
         IN  <<o.kind, tuple([i \in 1..Len(o.items) |->
                           IF o.kind = "dict"
                           THEN <<o.items[i][1], Deref(h, o.items[i][2])>>
                           ELSE Deref(h, o.items[i])])>>
    ELSE v

\* the value an object holds at place i
HeldAt(o, i) == IF o.kind = "dict" THEN o.items[i][2] ELSE o.items[i]

\* the addresses an object refers to
RefsOf(o) == {HeldAt(o, i)[2] : i \in {j \in 1..Len(o.items) : IsRef(HeldAt(o, j))}}

RECURSIVE ReachFrom(_, _, _)
ReachFrom(h, frontier, seen) ==
    IF frontier = {} THEN seen
    ELSE LET next == UNION {RefsOf(h[a]) : a \in frontier} \ (seen \cup frontier)
         IN  ReachFrom(h, next, seen \cup frontier)

\* the objects reachable from the object at address a
Reach(h, a) == ReachFrom(h, {a}, {})

\* the place of x in a sequence without repeats
IndexOf(xs, x) == CHOOSE i \in 1..Len(xs) : xs[i] = x

\* the objects at the addresses `order`, copied to the end of the heap, each
\* reference to one of them following its copy
copy_objects(h, order) ==
    LET move(v) == IF IsRef(v) THEN Ref(Len(h) + IndexOf(order, v[2])) ELSE v
        copy(o) == [kind  |-> o.kind,
                    items |-> tuple([i \in 1..Len(o.items) |->
                                  IF o.kind = "dict"
                                  THEN <<o.items[i][1], move(o.items[i][2])>>
                                  ELSE move(o.items[i])])]
    IN  h \o tuple([i \in 1..Len(order) |-> copy(h[order[i]])])

\* the copy of the object at address a, `order` being the objects it reaches
copy_of(h, a, order) == [heap |-> copy_objects(h, order), root |-> Len(h) + IndexOf(order, a)]

\* copy.copy: a new dict holding the same values, nested objects shared
copy_shallow(h, a) == [heap |-> Append(h, h[a]), root |-> Len(h) + 1]

\* copy.deepcopy: every reachable object is copied once, references follow the copies
deepcopy(h, a) == copy_of(h, a, Ascending(Reach(h, a)))

\* d.get(key, default) and d[key] = v of the dict at address a
obj_get(h, a, key, default) == dict_get(h[a].items, key, default)
obj_set(h, a, key, v) == [h EXCEPT ![a].items = dict_set(@, key, v)]

\* the items of the list a value refers to; of anything else, none
list_items(h, v) == IF IsRef(v) /\ h[v[2]].kind = "list" THEN h[v[2]].items ELSE <<>>

\* out.get(k1, {}).get(k2, [])
nested_list(h, a, k1, k2) ==
    LET d == obj_get(h, a, k1, V_None)
    IN  IF IsRef(d) THEN list_items(h, obj_get(h, d[2], k2, V_None)) ELSE <<>>

\* the factor of a scenario, as a fraction
scenario_factor_conservative(sc) == Frac(SCENARIO_FACTOR[s_conservative], 100)
scenario_factor(sc) == Frac(SCENARIO_FACTOR[sc], 100)

RECURSIVE scale_each(_, _, _, _)
\* for p in items: p[key] = float(p[key]) * factor
scale_each(st, items, key, factor) ==
    IF st.err /= "" \/ items = <<>> THEN st
    ELSE LET a == items[1][2]
             v == py_float(obj_get(st.heap, a, key, V_None))
         IN  IF ~dict_has(st.heap[a].items, key) THEN [st EXCEPT !.err = "KeyError"]
             ELSE IF IsRaise(v) THEN [st EXCEPT !.err = v[2]]
             ELSE scale_each([st EXCEPT !.heap = obj_set(@, a, key, V_float(f_mul(v[2], factor)))],
                             Tail(items), key, factor)

RECURSIVE scale_years(_, _, _)
\* service.py, lines 71-73
scale_years(st, items, factor) ==
    IF st.err /= "" \/ items = <<>> THEN st
    ELSE LET a  == items[1][2]
             s1 == scale_each(st, <<items[1]>>, "forecast_sales", factor)
             av == py_float(obj_get(s1.heap, a, "actual_sales", V_None))
             fv == py_float(obj_get(s1.heap, a, "forecast_sales", V_None))
         IN  IF s1.err /= "" THEN s1
             ELSE IF IsRaise(av) THEN [s1 EXCEPT !.err = av[2]]
             ELSE scale_years([s1 EXCEPT !.heap = obj_set(@, a, "total", V_float(f_add(av[2], fv[2])))],
                              Tail(items), factor)

\* np.argmax(np.array(values, dtype=float)), from 1: the first NaN if there
\* is one (None becomes NaN), else the first of the largest values
argmax(vals) ==
    LET x(i)  == IF vals[i] = V_None THEN NaNf ELSE vals[i][2]
        nans  == {i \in 1..Len(vals) : IsNaNf(x(i))}
        tops  == {i \in 1..Len(vals) : \A j \in 1..Len(vals) : ~f_gt(x(j), x(i))}
    IN  IF nans /= {} THEN SetMin(nans) ELSE SetMin(tops)

best_predicted_first(forecast_dates, forecast_values) ==
    IF forecast_dates = <<>> \/ forecast_values = <<>>
    THEN V_dict(<< <<"best_date", V_None>>, <<"best_value", V_None>> >>)
    ELSE V_dict(<< <<"best_date", forecast_dates[1]>>,
                   <<"best_value", py_float(forecast_values[1])>> >>)

\* best_predicted_insight, insights.py lines 106-110
best_predicted_insight(forecast_dates, forecast_values) ==
    IF forecast_dates = <<>> \/ forecast_values = <<>>
    THEN V_dict(<< <<"best_date", V_None>>, <<"best_value", V_None>> >>)
    ELSE LET idx == argmax(forecast_values)
         IN  V_dict(<< <<"best_date", forecast_dates[idx]>>,
                       <<"best_value", py_float(forecast_values[idx])>> >>)

\* the dict a key of out holds, a new empty one when it holds none: [heap, at]
dict_or_new(h, out, key) ==
    LET d == obj_get(h, out, key, V_None)
    IN  IF IsRef(d) THEN [heap |-> h, at |-> d[2]]
        ELSE [heap |-> Append(h, [kind |-> "dict", items |-> <<>>]), at |-> Len(h) + 1]

\* service.py, lines 75-85: the KPIs from the rescaled table
rescale_kpis(st) ==
    IF st.err /= "" THEN st
    ELSE LET out   == st.root
             k     == dict_or_new(st.heap, out, "kpis")
             table == list_items(k.heap, obj_get(k.heap, out, "table", V_None))
             rows  == first_rows(table, 3)
             sales == tuple([i \in 1..Len(rows) |->
                          py_float(obj_get(k.heap, rows[i][2], "predicted_sales", V_float(Frac(0, 1))))])
             h1    == IF table /= <<>>
                      THEN obj_set(k.heap, k.at, "next_periods_forecast", V_float(f_sum(fracs(sales))))
                      ELSE k.heap
             last_actual == obj_get(h1, k.at, "last_periods_actual", V_None)
             next_fore   == obj_get(h1, k.at, "next_periods_forecast", V_None)
             la == py_float(last_actual)
             nf == py_float(next_fore)
             h2 == IF la[2] /= Frac(0, 1)
                   THEN obj_set(h1, k.at, "growth_pct",
                                V_float(f_mul(f_div(f_sub(nf[2], la[2]), la[2]), Frac(100, 1))))
                   ELSE h1
         IN  IF table /= <<>> /\ \E i \in 1..Len(sales) : IsRaise(sales[i])
             THEN [st EXCEPT !.heap = k.heap, !.err = "TypeError"]
             ELSE IF last_actual = V_None \/ next_fore = V_None
             THEN [st EXCEPT !.heap = obj_set(h1, out, "kpis", Ref(k.at))]
             ELSE IF IsRaise(la) \/ IsRaise(nf)
             THEN [st EXCEPT !.heap = h1, !.err = "TypeError"]
             ELSE [st EXCEPT !.heap = obj_set(h2, out, "kpis", Ref(k.at))]

\* service.py, lines 87-92: the best predicted period from the rescaled chart
rescale_best(st) ==
    IF st.err /= "" THEN st
    ELSE LET out    == st.root
             f      == nested_list(st.heap, out, "chart", "forecast")
             fdates == tuple([i \in 1..Len(f) |-> obj_get(st.heap, f[i][2], "date", V_None)])
             fvals  == tuple([i \in 1..Len(f) |-> obj_get(st.heap, f[i][2], "value", V_None)])
             ins    == dict_or_new(st.heap, out, "insights")
             h1     == obj_set(ins.heap, out, "insights", Ref(ins.at))
             best   == best_predicted_insight(fdates, fvals)
             b      == AllocVal(h1, best)
         IN  IF IsRaise(best[2][2][2])
             THEN [st EXCEPT !.heap = h1, !.err = "TypeError"]
             ELSE [st EXCEPT !.heap = obj_set(b.heap, ins.at, "best_predicted", b.val)]

\* service.py, lines 60-62: the copy, with its scenario set
scenario_copy(c, scenario) ==
    [heap |-> obj_set(c.heap, c.root, "scenario", V_str(scenario)), root |-> c.root, err |-> ""]

\* service.py, lines 64-65
rescale_chart(st, factor) ==
    scale_each(st, nested_list(st.heap, st.root, "chart", "forecast"), "value", factor)

\* service.py, lines 67-68
rescale_table(st, factor) ==
    scale_each(st, list_items(st.heap, obj_get(st.heap, st.root, "table", V_None)),
               "predicted_sales", factor)

\* service.py, lines 70-73
rescale_years(st, factor) ==
    scale_years(st, list_items(st.heap, obj_get(st.heap, st.root, "year_table", V_None)), factor)

\* apply_scenario, service.py lines 55-94, on the payload at address p:
\* the heap after the call, the address of the payload returned, the error raised
apply_scenario_obj(h, p, scenario0) ==
    LET scenario == _safe_scenario(scenario0)
        factor   == scenario_factor(scenario)
    IN  rescale_best(rescale_kpis(rescale_years(rescale_table(rescale_chart(
            scenario_copy(deepcopy(h, p), scenario), factor), factor), factor)))
----------------------------------------------------------------------------
(* The payload serializer and the scenario applier (SpecScenario): a        *)
(* payload is built from a forecast result, two scenarios are applied to    *)
(* that same payload one after the other, and the first is applied again    *)
(* to its own result.                                                       *)

\* a frame of monthly rows from month `first` on, with the given values
frame(col, first, values) ==
    V_DataFrame(tuple([i \in 1..Len(values) |->
        V_dict(<< <<"ds", V_Timestamp(DaysBefore(first + i - 1))>>,
                  <<col, V_float(values[i])>> >>)]))

whole(ns) == tuple([i \in 1..Len(ns) |-> Frac(ns[i], 1)])

\* the actual values: none, fewer than three, more than three, all zero, one missing
ActualValues ==
    { <<>>, whole(<<100, 200>>), whole(<<50, 100, 100, 100>>), whole(<<0, 0, 0>>),
      <<Frac(7, 1), NaNf>> }

\* the predicted values: none, fewer than three, more than three with the
\* largest twice, one missing
ForecastValues ==
    { <<>>, whole(<<90, 120>>), whole(<<110, 110, 110, 20, 110>>),
      <<Frac(5, 2), Frac(5, 1), Frac(1, 4)>>, <<NaNf, Frac(1, 1)>> }

\* the month of the first actual row: the forecast starts in the same year or the next
FirstMonths == {8, 11}

ForecastResults ==
    { [actual_df   |-> frame("y", m, a),
       forecast_df |-> frame("yhat", m + Len(a), f)] :
          m \in FirstMonths, a \in ActualValues, f \in ForecastValues }

\* the scenario argument of apply_scenario, with the scenario it means
ScenarioArgs ==
    { x \in ScenarioInputs :
        /\ x.given
        /\ x.text \in {s_base, s_conservative, upper(s_aggressive), None,
                       <<"\t", " ">> \o upper(s_base) \o <<" ">>, <<"b", "a", "s">>} }

ScenarioInit ==
    /\ scIn \in [fr : ForecastResults, scenarios : ScenarioArgs \X ScenarioArgs]
    /\ scOut = [pc |-> "build", err |-> "", heap |-> <<>>, heap0 |-> <<>>, p |-> 0,
                runs |-> <<>>, again |-> <<>>]

filters_All ==
    V_dict(<< <<"category", V_str(s_All)>>, <<"region", V_str(s_All)>>,
              <<"segment", V_str(s_All)>> >>)

\* the state once the payload is built, or the builder has raised
built(payload) ==
    IF IsRaise(payload)
    THEN [scOut EXCEPT !.pc = "done", !.err = payload[2]]
    ELSE [scOut EXCEPT !.pc = "apply", !.p = 1,
                       !.heap  = AllocVal(<<>>, payload).heap,
                       !.heap0 = AllocVal(<<>>, payload).heap]

\* run_forecast, line 158: payload["cache_hit"] = False
with_cache_hit(payload) ==
    IF IsRaise(payload) THEN payload
    ELSE V_dict(dict_set(payload[2], "cache_hit", V_bool(FALSE)))

\* run_forecast, lines 157-158: the payload of the forecast result, cache_hit set
BuildPayload ==
    /\ scOut.pc = "build"
    /\ scOut' = built(with_cache_hit(forecastresult_to_payload(scIn.fr, s_monthly, filters_All)))
    /\ UNCHANGED <<scIn, cacheVars, keyVars, alignVars, featVars, fcVars, jsVars>>

\* the state once a scenario has been applied: r is what apply_scenario_obj gave
applied(s, r) ==
    [scOut EXCEPT !.heap = r.heap,
                  !.runs = Append(@, [scenario |-> s, root |-> r.root, err |-> r.err]),
                  !.pc = IF Len(scOut.runs) = 1 THEN "again" ELSE "apply"]

\* apply_scenario(base, scenario), for the next of the two scenarios
ApplyScenario ==
    /\ scOut.pc = "apply"
    /\ scOut' = applied(scIn.scenarios[Len(scOut.runs) + 1],
                        apply_scenario_obj(scOut.heap, scOut.p,
                                           scIn.scenarios[Len(scOut.runs) + 1].text))
    /\ UNCHANGED <<scIn, cacheVars, keyVars, alignVars, featVars, fcVars, jsVars>>

\* the state once the first scenario has been applied to its own result
applied_again(r) ==
    [scOut EXCEPT !.pc = "done", !.heap = r.heap, !.again = <<[root |-> r.root, err |-> r.err]>>]

\* apply_scenario(apply_scenario(base, scenario), scenario), for the first scenario
ApplyAgain ==
    /\ scOut.pc = "again"
    /\ scOut' = IF scOut.runs[1].err /= ""
                THEN [scOut EXCEPT !.pc = "done"]
                ELSE applied_again(apply_scenario_obj(scOut.heap, scOut.runs[1].root,
                                                      scIn.scenarios[1].text))
    /\ UNCHANGED <<scIn, cacheVars, keyVars, alignVars, featVars, fcVars, jsVars>>

InitScenario == ScenarioInit /\ CacheIdle /\ KeyIdle /\ AlignIdle /\ FeatIdle /\ FcIdle /\ JsIdle

NextScenario == BuildPayload \/ ApplyScenario \/ ApplyAgain

SpecScenario == InitScenario /\ [][NextScenario]_vars
----------------------------------------------------------------------------
(* The KPIs of the payload forecastresult_to_payload builds.                *)

\* the values of a column of a frame, as the frame holds them
column(df, col) == tuple([i \in 1..Len(df[2]) |-> dict_get(df[2][i][2], col, V_None)[2]])

\* the payload BuildPayload built, its objects written out
BuiltPayload == Deref(scOut.heap0, Ref(scOut.p))

\* a key of a dict value
item(d, key) == dict_get(d[2], key, V_None)

PayloadBuilt == scOut.pc /= "build" /\ scOut.err = ""

\* C17: in the payload forecastresult_to_payload builds, last_periods_actual
\* is the sum of the last three actual values (of all of them when there are
\* fewer), next_periods_forecast is the sum of the first three forecast
\* values (of all of them when there are fewer), growth_pct is
\* (next - last) / last * 100 when last is not zero and exactly 0 when it
\* is; and the builder never raises a division error.
C17_KpisOfBuiltPayload ==
    /\ scOut.err /= "ZeroDivisionError"
    /\ PayloadBuilt =>
          LET ys    == column(scIn.fr.actual_df, "y")
              yhats == column(scIn.fr.forecast_df, "yhat")
              last  == f_sum(SubSeq(ys, IF Len(ys) < 3 THEN 1 ELSE Len(ys) - 2, Len(ys)))
              next  == f_sum(SubSeq(yhats, 1, IF Len(yhats) < 3 THEN Len(yhats) ELSE 3))
              kpis  == item(BuiltPayload, "kpis")
          IN  /\ item(kpis, "last_periods_actual")[2] = last
              /\ item(kpis, "next_periods_forecast")[2] = next
              /\ last /= Frac(0, 1) =>
                    item(kpis, "growth_pct")
                        = V_float(f_mul(f_div(f_sub(next, last), last), Frac(100, 1)))
              /\ last = Frac(0, 1) => item(kpis, "growth_pct") = V_float(Frac(0, 1))

\* a payload built from actual values whose last three sum to 300 and
\* forecast values whose first three sum to 330: growth_pct is 10.0
C17_Witness ==
    /\ PayloadBuilt
    /\ Len(column(scIn.fr.actual_df, "y")) > 3
    /\ item(item(BuiltPayload, "kpis"), "last_periods_actual") = V_float(Frac(300, 1))
    /\ item(item(BuiltPayload, "kpis"), "next_periods_forecast") = V_float(Frac(330, 1))
    /\ item(item(BuiltPayload, "kpis"), "growth_pct") = V_float(Frac(10, 1))
----------------------------------------------------------------------------
(* apply_scenario leaves its input alone.                                   *)

\* the payload a run returned, its objects written out
RunPayload(run) == Deref(scOut.heap, Ref(run.root))

\* what apply_scenario gives for the scenario of a run when it is the only
\* call made on the payload as it was built
Alone(run) == apply_scenario_obj(scOut.heap0, scOut.p, run.scenario.text)

AlonePayload(run) == Deref(Alone(run).heap, Ref(Alone(run).root))

\* C14: apply_scenario never changes its input: after each call the payload
\* given and every dict and list reachable from it are as they were built,
\* the payload returned holds none of the objects of the payload given, and
\* each scenario applied to the same payload after another gives what it
\* gives when applied alone.
C14_InputNeverMutated ==
    (scOut.pc /= "build" /\ scOut.runs /= <<>>) =>
        /\ \A a \in Reach(scOut.heap0, scOut.p) : scOut.heap[a] = scOut.heap0[a]
        /\ Deref(scOut.heap, Ref(scOut.p)) = BuiltPayload
        /\ \A i \in 1..Len(scOut.runs) :
              /\ Reach(scOut.heap, scOut.runs[i].root) \cap Reach(scOut.heap, scOut.p) = {}
              /\ scOut.runs[i].err = Alone(scOut.runs[i]).err
              /\ RunPayload(scOut.runs[i]) = AlonePayload(scOut.runs[i])
        /\ \A i \in 1..Len(scOut.again) :
              Reach(scOut.heap, scOut.again[i].root)
                  \cap (Reach(scOut.heap, scOut.p) \cup Reach(scOut.heap, scOut.runs[1].root)) = {}

\* two scenarios with different factors applied to one payload with forecast
\* rows, and the first applied again to its own result
C14_Witness ==
    /\ scOut.pc = "done"
    /\ Len(scOut.runs) = 2
    /\ scOut.again /= <<>>
    /\ scOut.runs[1].scenario.intended /= scOut.runs[2].scenario.intended
    /\ scOut.runs[1].scenario.intended /= s_base
    /\ Len(item(BuiltPayload, "table")[2]) > 3
    /\ RunPayload(scOut.runs[1]) /= RunPayload(scOut.runs[2])
    /\ RunPayload(scOut.runs[1]) /= BuiltPayload
----------------------------------------------------------------------------
(* What apply_scenario returns, against what it was given.                  *)

\* the values the rows of a list hold under a key
values(rows, key) == tuple([i \in 1..Len(rows[2]) |-> item(rows[2][i], key)])

\* each number of `after` is the factor times the number at its place in `before`
Scaled(before, after, factor) ==
    /\ Len(after) = Len(before)
    /\ \A i \in 1..Len(before) : after[i] = V_float(f_mul(before[i][2], factor))

\* a run that returned a payload
Ran(i) == scOut.pc /= "build" /\ i \in 1..Len(scOut.runs) /\ scOut.runs[i].err = ""

\* C15: the payload apply_scenario returns for a scenario with factor f
\* (conservative 0.92, base 1.00, aggressive 1.08, any other name 1.00) has
\* every chart forecast value, table predicted_sales and year_table
\* forecast_sales equal to f times the input's, every year_table total equal
\* to actual_sales plus the rescaled forecast_sales, next_periods_forecast
\* equal to the sum of the first three rescaled table rows, growth_pct equal
\* to (next - last) / last * 100 (0 when last is 0), best_predicted a
\* rescaled forecast chart point of the largest value, and chart.actual
\* as in the input.
C15_ScenarioRescales ==
    \A i \in 1..2 : Ran(i) =>
        LET in  == BuiltPayload
            out == RunPayload(scOut.runs[i])
            sc  == scOut.runs[i].scenario.intended
            f   == IF sc = s_conservative THEN Frac(92, 100)
                   ELSE IF sc = s_aggressive THEN Frac(108, 100)
                   ELSE Frac(1, 1)
            years  == item(out, "year_table")
            sales  == values(item(out, "table"), "predicted_sales")
            points == item(item(out, "chart"), "forecast")
            last   == item(item(out, "kpis"), "last_periods_actual")[2]
            next   == item(item(out, "kpis"), "next_periods_forecast")[2]
            best   == item(item(out, "insights"), "best_predicted")
        IN  /\ Scaled(values(item(item(in, "chart"), "forecast"), "value"),
                      values(points, "value"), f)
            /\ Scaled(values(item(in, "table"), "predicted_sales"), sales, f)
            /\ Scaled(values(item(in, "year_table"), "forecast_sales"),
                      values(years, "forecast_sales"), f)
            /\ \A k \in 1..Len(years[2]) :
                  item(years[2][k], "total")
                      = V_float(f_add(item(years[2][k], "actual_sales")[2],
                                      item(years[2][k], "forecast_sales")[2]))
            /\ next = f_sum(fracs(SubSeq(sales, 1, IF Len(sales) < 3 THEN Len(sales) ELSE 3)))
            /\ last = item(item(in, "kpis"), "last_periods_actual")[2]
            /\ item(item(out, "kpis"), "growth_pct") =
                  IF last = Frac(0, 1) THEN V_float(Frac(0, 1))
                  ELSE V_float(f_mul(f_div(f_sub(next, last), last), Frac(100, 1)))
            /\ IF points[2] = <<>>
               THEN item(best, "best_value") = V_None /\ item(best, "best_date") = V_None
               ELSE /\ \E k \in 1..Len(points[2]) :
                          /\ item(best, "best_date") = item(points[2][k], "date")
                          /\ item(best, "best_value") = item(points[2][k], "value")
                    /\ \A k \in 1..Len(points[2]) :
                          ~f_gt(item(points[2][k], "value")[2], item(best, "best_value")[2])
            /\ item(item(out, "chart"), "actual") = item(item(in, "chart"), "actual")

\* the conservative scenario applied to a payload whose largest forecast
\* value is not the first one, with actual values that do not sum to zero
C15_Witness ==
    /\ Ran(1)
    /\ scOut.runs[1].scenario.intended = s_conservative
    /\ item(item(BuiltPayload, "kpis"), "last_periods_actual")[2] /= Frac(0, 1)
    /\ Len(item(RunPayload(scOut.runs[1]), "year_table")[2]) = 2
    /\ item(item(item(RunPayload(scOut.runs[1]), "insights"), "best_predicted"), "best_value")
          /= item(item(item(RunPayload(scOut.runs[1]), "chart"), "forecast")[2][1], "value")
    /\ item(item(RunPayload(scOut.runs[1]), "kpis"), "growth_pct")
          /= item(item(BuiltPayload, "kpis"), "growth_pct")
----------------------------------------------------------------------------
(* The base scenario applied twice.                                         *)

\* the first scenario was applied, and applied again to what it returned
AppliedAgain == scOut.pc = "done" /\ scOut.again /= <<>> /\ scOut.again[1].err = ""

\* C16: applying the base scenario to the payload the base scenario
\* returned gives that payload again.
C16_BaseIdempotent ==
    (AppliedAgain /\ scOut.runs[1].scenario.intended = s_base) =>
        Deref(scOut.heap, Ref(scOut.again[1].root)) = RunPayload(scOut.runs[1])

\* "base" applied to a payload with forecast rows, and again to the result
C16_Witness ==
    /\ AppliedAgain
    /\ scOut.runs[1].scenario.text = s_base
    /\ Len(item(BuiltPayload, "table")[2]) > 3
    /\ item(item(BuiltPayload, "kpis"), "last_periods_actual")[2] /= Frac(0, 1)
----------------------------------------------------------------------------
(* run_forecast on a cache miss, by the values it handles (SpecSafe): the   *)
(* engine's output is converted to the payload, the scenario is applied,    *)
(* the insights are added, the payload is made safe once more, written to   *)
(* the cache and returned.                                                  *)

\* d[key] = v of a dict value
with_item(d, key, v) == V_dict(dict_set(d[2], key, v))

\* engine_to_payload, serializer.py lines 168-202
engine_to_payload_obj(raw, freq, filters) ==
    IF raw[1] = "dict"
    THEN json_safe(raw)
    ELSE IF raw[1] = "ForecastResult"
    THEN forecastresult_to_payload(raw[2], freq, filters)
    ELSE IF json_safe(raw)[1] = "dict" THEN json_safe(raw)
    ELSE V_dict(<< <<"result", json_safe(raw)>> >>)

\* what apply_scenario returns or raises, from what apply_scenario_obj gives
scenario_result(r) == IF r.err /= "" THEN V_raise(r.err) ELSE Deref(r.heap, Ref(r.root))

\* apply_scenario on a payload held by no one else
apply_scenario_value(payload, scenario0) ==
    scenario_result(apply_scenario_obj(AllocVal(<<>>, payload).heap, 1, scenario0))

\* the texts and flags the insight rules give; none of them is a number
insight_text == V_str(<<"n", "o", "t", "e">>)

\* the insights set on the copy: insights.py gives strings, lists of strings
\* and a flag for all but best_predicted
with_insights(out, insights, best) ==
    with_item(
        with_item(out, "insights",
            with_item(with_item(with_item(with_item(insights,
                "seasonality", V_dict(<< <<"top_month_names", V_list(<<insight_text>>)>>,
                                         <<"default_note", insight_text>> >>)),
                "anomaly", V_dict(<< <<"is_anomaly", V_bool(FALSE)>>,
                                     <<"message", V_str(<<>>)>> >>)),
                "best_predicted", best),
                "recommendations", V_list(<<insight_text>>))),
        "confidence", V_dict(<< <<"label", insight_text>>, <<"note", insight_text>> >>))

\* the forecast points of a payload's chart
forecast_points(payload) ==
    IF item(payload, "chart")[1] = "dict" /\ item(item(payload, "chart"), "forecast")[1] = "list"
    THEN item(item(payload, "chart"), "forecast")[2]
    ELSE <<>>

\* enrich_insights, service.py lines 97-127
enrich_insights(payload) ==
    LET f    == forecast_points(payload)
        best == best_predicted_insight(tuple([i \in 1..Len(f) |-> item(f[i], "date")]),
                                       tuple([i \in 1..Len(f) |-> item(f[i], "value")]))
    IN  IF IsRaise(item(best, "best_value")) THEN V_raise("TypeError")
        ELSE with_insights(payload,
                           IF item(payload, "insights")[1] = "dict"
                           THEN item(payload, "insights") ELSE V_dict(<<>>),
                           best)

\* run_forecast, line 165: base = json_safe(base)
final_safety_skipped(base) == base
final_safety(base) == json_safe(base)

RECURSIVE dump_errors(_)
\* the errors json.dump(..., allow_nan=False) can raise on a value: ValueError
\* for a NaN float, TypeError for an object that is not JSON serializable
dump_errors(v) ==
    IF v[1] \in {"dict", "list", "tuple"}
    THEN UNION {dump_errors(Kids(v)[i]) : i \in 1..Len(v[2])}
    ELSE IF v[1] \in {"float", "np.float64"}
    THEN IF IsNaNf(v[2]) THEN {"ValueError"} ELSE {}
    ELSE IF v[1] \in {"NoneType", "bool", "int", "str"} THEN {}
    ELSE {"TypeError"}

\* the numbers an engine may give: plain, and in numpy's wrappers, some NaN
NumberInputs ==
    { V_float(Frac(5, 2)), V_float(NaNf), V_int(4),
      V_np("np.float64", Frac(3, 1)), V_np("np.float64", NaNf),
      V_np("np.float32", Frac(2, 1)), V_np("np.float32", NaNf),
      V_np("np.int64", Frac(7, 1)) }

\* the day 2014-02-10
SampleDay == 40

\* the dates an engine may give
DateInputs == { V_datetime(SampleDay), V_date(SampleDay), V_Timestamp(SampleDay),
                V_str(iso_date(SampleDay)) }

\* the containers an engine may give
ContainerInputs ==
    { V_ndarray(<<V_np("np.float32", NaNf), V_np("np.float32", Frac(1, 2))>>),
      V_tuple(<<V_np("np.float32", NaNf), V_np("np.int64", Frac(7, 1)), V_date(SampleDay)>>),
      V_list(<<V_tuple(<<V_float(NaNf)>>), V_dict(<< <<"at", V_Timestamp(SampleDay)>> >>)>>),
      V_DataFrame(<<V_dict(<< <<"ds", V_Timestamp(SampleDay)>>, <<"y", V_float(NaNf)>> >>)>>),
      V_set(<<V_float(NaNf)>>) }

\* an engine output already in the payload's shape
RawPayload(x, y, d, extra) ==
    V_dict(<<
        <<"freq", V_str(s_monthly)>>,
        <<"chart", V_dict(<<
            <<"actual", V_list(<<V_dict(<< <<"date", d>>, <<"value", x>> >>)>>)>>,
            <<"forecast", V_list(<<V_dict(<< <<"date", d>>, <<"value", y>> >>),
                                   V_dict(<< <<"date", d>>, <<"value", V_int(3)>> >>)>>)>> >>)>>,
        <<"table", V_list(<<V_dict(<< <<"date", d>>, <<"predicted_sales", y>> >>),
                            V_dict(<< <<"date", d>>, <<"predicted_sales", V_int(3)>> >>)>>)>>,
        <<"year_table", V_list(<<V_dict(<< <<"year", V_np("np.int64", Frac(2014, 1))>>,
                                           <<"actual_sales", V_float(Frac(4, 1))>>,
                                           <<"forecast_sales", y>>,
                                           <<"total", V_float(Frac(4, 1))>> >>)>>)>>,
        <<"kpis", V_dict(<< <<"last_periods_actual", x>> >>)>>,
        <<"samples", extra>> >>)

\* the engine outputs: payload-shaped dicts, forecast results, and a bare list
EngineOutputs ==
    { RawPayload(x, y, d, extra) :
        x \in NumberInputs, y \in NumberInputs, d \in DateInputs, extra \in ContainerInputs }
    \cup { <<"ForecastResult", fr>> :
             fr \in { r \in ForecastResults : Len(r.actual_df[2]) = 2 } }
    \cup { V_list(<<V_np("np.float32", NaNf)>>) }

SafeInit ==
    /\ jsIn \in [raw : EngineOutputs, scenario : {s_base, s_conservative}]
    /\ jsOut = [pc |-> "engine", base |-> V_None, written |-> <<>>, returned |-> <<>>,
                err |-> ""]

\* the state after a step of run_forecast gave v, or raised
stepped(v, pc) ==
    IF IsRaise(v) THEN [jsOut EXCEPT !.pc = "done", !.err = v[2]]
    ELSE [jsOut EXCEPT !.pc = pc, !.base = v]

\* run_forecast, lines 157-158
EngineToPayload ==
    /\ jsOut.pc = "engine"
    /\ jsOut' = stepped(with_cache_hit(engine_to_payload_obj(jsIn.raw, s_monthly, filters_All)),
                        "scenario")
    /\ UNCHANGED <<jsIn, cacheVars, keyVars, alignVars, featVars, fcVars, scVars>>

\* run_forecast, line 161
ApplyScenarioStep ==
    /\ jsOut.pc = "scenario"
    /\ jsOut' = stepped(apply_scenario_value(jsOut.base, jsIn.scenario), "insights")
    /\ UNCHANGED <<jsIn, cacheVars, keyVars, alignVars, featVars, fcVars, scVars>>

\* run_forecast, line 162
EnrichInsights ==
    /\ jsOut.pc = "insights"
    /\ jsOut' = stepped(enrich_insights(jsOut.base), "safety")
    /\ UNCHANGED <<jsIn, cacheVars, keyVars, alignVars, featVars, fcVars, scVars>>

\* run_forecast, line 165
FinalSafety ==
    /\ jsOut.pc = "safety"
    /\ jsOut' = stepped(final_safety(jsOut.base), "write")
    /\ UNCHANGED <<jsIn, cacheVars, keyVars, alignVars, featVars, fcVars, scVars>>

\* _write_json, service.py lines 46-52: the file holds json_safe(data), or
\* json.dump raises and run_forecast with it
WriteJson ==
    /\ jsOut.pc = "write"
    /\ \/ /\ dump_errors(json_safe(jsOut.base)) = {}
          /\ jsOut' = [jsOut EXCEPT !.pc = "return", !.written = <<json_safe(jsOut.base)>>]
       \/ \E e \in dump_errors(json_safe(jsOut.base)) :
            jsOut' = [jsOut EXCEPT !.pc = "done", !.err = e]
    /\ UNCHANGED <<jsIn, cacheVars, keyVars, alignVars, featVars, fcVars, scVars>>

\* run_forecast, line 168
ReturnPayload ==
    /\ jsOut.pc = "return"
    /\ jsOut' = [jsOut EXCEPT !.pc = "done", !.returned = <<jsOut.base>>]
    /\ UNCHANGED <<jsIn, cacheVars, keyVars, alignVars, featVars, fcVars, scVars>>

InitSafe == SafeInit /\ CacheIdle /\ KeyIdle /\ AlignIdle /\ FeatIdle /\ FcIdle /\ ScIdle

NextSafe ==
    \/ EngineToPayload
    \/ ApplyScenarioStep
    \/ EnrichInsights
    \/ FinalSafety
    \/ WriteJson
    \/ ReturnPayload

SpecSafe == InitSafe /\ [][NextSafe]_vars

RECURSIVE Plain(_)
\* a value holding, at any depth, no NaN, no date or time object and no
\* numpy value: only None, booleans, plain numbers, strings, lists and dicts
Plain(v) ==
    IF v[1] \in {"dict", "list"} THEN \A i \in 1..Len(v[2]) : Plain(Kids(v)[i])
    ELSE IF v[1] \in {"int", "float"} THEN ~IsNaNf(v[2])
    ELSE v[1] \in {"NoneType", "bool", "str"}

\* C18: the payload run_forecast writes to the cache on a miss and the
\* payload it returns hold no NaN at any depth, no date, datetime or
\* Timestamp object and no numpy number or array.
C18_FinalPayloadIsPlain ==
    /\ \A i \in 1..Len(jsOut.written) : Plain(jsOut.written[i])
    /\ \A i \in 1..Len(jsOut.returned) : Plain(jsOut.returned[i])

\* a payload returned for an engine output that held a NaN in a 32-bit
\* numpy float, a forecast value in a numpy wrapper and a datetime: the NaN
\* is null and the date an ISO string in what is returned
C18_Witness ==
    /\ jsOut.returned /= <<>>
    /\ jsIn.raw[1] = "dict"
    /\ item(item(item(jsIn.raw, "chart"), "actual")[2][1], "value") = V_np("np.float32", NaNf)
    /\ item(item(item(jsIn.raw, "chart"), "actual")[2][1], "date") = V_datetime(SampleDay)
    /\ item(item(item(jsIn.raw, "chart"), "forecast")[2][1], "value")[1] = "np.float32"
    /\ item(item(item(jsOut.returned[1], "chart"), "actual")[2][1], "value") = V_None
    /\ item(item(item(jsOut.returned[1], "chart"), "actual")[2][1], "date")
           = V_str(iso_datetime(SampleDay))
    /\ jsOut.written = jsOut.returned
----------------------------------------------------------------------------
(* A request that fails, and the cache it leaves.                           *)

\* the call of thread t is the only call made so far, it missed the cache,
\* and it has raised
FirstCallFailed(t) ==
    /\ calls = 1
    /\ th[t].pc = "done"
    /\ th[t].engineCalls = 1
    /\ result[t].status = "raised"

\* C21: a request that misses the cache and then fails, in the engine or in
\* any later step down to the writing of the cache file, leaves the cache
\* directory with the entries and contents it had before the call; for the
\* first call ever made that is an empty cache: no key has a file.
C21_FailedCallLeavesCacheUnchanged ==
    \A t \in Threads :
        FirstCallFailed(t) => \A k \in Keys : files[k] = NoFile
----------------------------------------------------------------------------
(* The string the cache key hashes, for parameter values that hold the      *)
(* separators (SpecBundle): two requests with the same parameter names.      *)

k_mode   == <<"m", "o", "d", "e">>
k_region == <<"r", "e", "g", "i", "o", "n">>

s_fast == <<"f", "a", "s", "t">>
s_full == <<"f", "u", "l", "l">>
s_east == <<"e", "a", "s", "t">>
s_west == <<"w", "e", "s", "t">>

\* the values a request may give for mode: one holds "|" and "="
ModeInputs == { s_fast, s_full, s_fast \o <<"|">> \o k_region \o <<"=">> \o s_east }

\* the values a request may give for region: one holds "|" and "="
RegionInputs == { s_east, s_west, s_east \o <<"|">> \o k_region \o <<"=">> \o s_west }

\* requests with the parameters mode, region and scenario, in two orders
BundleRequests ==
    UNION { { [params |-> q, others |-> o, intended |-> s_base] :
                q \in { << <<k_mode, o[1]>>, <<k_region, o[2]>>, <<k_scenario, s_base>> >>,
                        << <<k_scenario, upper(s_base)>>, <<k_region, o[2]>>, <<k_mode, o[1]>> >> } } :
              o \in ModeInputs \X RegionInputs }

BundleInit ==
    /\ keyIn \in BundleRequests \X BundleRequests
    /\ keyOut = <<>>

InitBundle == BundleInit /\ CacheIdle /\ AlignIdle /\ FeatIdle /\ FcIdle /\ ScIdle /\ JsIdle

NextBundle == ComputeKey

SpecBundle == InitBundle /\ [][NextBundle]_vars

\* the parameters the key of the i-th request is computed from
KeyParams(i) == params2_of(keyIn[i].params)

\* C22: two requests with the same parameter names whose values, after
\* scenario normalization, differ in at least one parameter never give the
\* same string to hash, and so never the same key, whatever the values
\* hold, "|" and "=" included.
C22_PreHashInjective ==
    (Len(keyOut) = 2
        /\ dict_keys(KeyParams(1)) = dict_keys(KeyParams(2))
        /\ ~dict_eq(KeyParams(1), KeyParams(2)))
    => /\ normalized(KeyParams(1)) /= normalized(KeyParams(2))
       /\ keyOut[1] /= keyOut[2]
====
